---------------------------- MODULE Spec2Model ----------------------------
(***************************************************************************)
(* A model of the compendium pack transcoder of src/src/database.ts:       *)
(* compilePack / compileClassicLevel (source files -> LevelDB store) and   *)
(* extractPack / extractClassicLevel (store -> source files), with the     *)
(* helpers they share: applyHierarchy, mapHierarchy, keyJoin and the       *)
(* HIERARCHY table.                                                        *)
(*                                                                         *)
(* Representation.                                                         *)
(*  - A JavaScript string is a sequence of tokens.  A token is either one  *)
(*    separator character ("!", ".", "_", "/", " ") or a run of other      *)
(*    characters.  "!actors!abc" is <<"!","actors","!","abc">> and the     *)
(*    empty string is <<>>.  Concatenation is \o.  "!", "." and "/" are    *)
(*    always tokens of their own.                                          *)
(*  - A character outside ASCII is a token of its own, written as its      *)
(*    escape in lower-case hexadecimal digits: the name Caf\u00e9 is       *)
(*    <<"Caf","\\u00e9">>, the combining mark U+0301 is "\\u0301" and      *)
(*    U+1D15E is "\\u{1d15e}".  The grave accent U+0060 is written as its  *)
(*    escape "\\u0060" as well.  No string of the model holds a backslash  *)
(*    but these.                                                           *)
(*  - A Document is a TLA+ record; a property the object does not have is  *)
(*    a field the record does not have.                                    *)
(*  - An embedded collection is a sequence (of Documents in a source       *)
(*    document, of ids in a stored value).                                 *)
(***************************************************************************)
EXTENDS Integers, Sequences, FiniteSets, TLC

(***************************************************************************)
(* Bounds of the model.                                                    *)
(***************************************************************************)
\* At most this many source files, drawn from FilePool, in one source directory.
MaxFiles == 2

\* An extraction that does not clean its destination finds at most this many
\* files in it.
MaxKept == 1

(***************************************************************************)
(* JavaScript values.  A string in a position that always holds a string   *)
(* (_key, _id, name, folder, a file name) is a bare token sequence.  In a  *)
(* position that may hold values of several types (an element of an        *)
(* embedded collection, the value of a singular embedded field) every      *)
(* value is a record: a Document, a string Str(s), Null or Undefined.      *)
(***************************************************************************)
Null == [null |-> TRUE]

Undefined == [undefined |-> TRUE]

Str(s) == [str |-> s]

IsNull(v) == "null" \in DOMAIN v

IsUndefined(v) == "undefined" \in DOMAIN v

IsStr(v) == "str" \in DOMAIN v

IsObject(v) == ~IsNull(v) /\ ~IsUndefined(v) /\ ~IsStr(v)

\* !value
Falsy(v) == IsNull(v) \/ IsUndefined(v) \/ (IsStr(v) /\ v.str = <<>>)

Has(doc, field) == field \in DOMAIN doc

\* obj[field] for a string-valued field; the empty string stands for a
\* missing one (both are falsy and both are dropped by keyJoin).
StrField(doc, field) == IF Has(doc, field) THEN doc[field] ELSE <<>>

\* obj[field] where undefined and the empty string must be told apart (a
\* key of a Map, the argument of Map.prototype.get).
Ref(doc, field) == IF Has(doc, field) THEN Str(doc[field]) ELSE Undefined

\* obj[field] = value
SetField(doc, field, value) ==
    [f \in (DOMAIN doc) \cup {field} |-> IF f = field THEN value ELSE doc[f]]

\* delete obj[field]
DeleteField(doc, field) == [f \in (DOMAIN doc) \ {field} |-> doc[f]]

Range(s) == {s[i] : i \in DOMAIN s}

\* The field of an embedded collection holds a sequence in the model.  A
\* value v other than an array in such a field is the one-element sequence
\* NotArray(v), which no array of documents is.
NotArray(v) == <<[notArray |-> v]>>

\* Array.isArray(value), for the value of an embedded collection's field
ArrayIsArray(value) == ~(Len(value) = 1 /\ "notArray" \in DOMAIN value[1])

Unboxed(value) == value[1].notArray

(***************************************************************************)
(* Strings.                                                                *)
(***************************************************************************)
\* Array.prototype.join(sep) on an array of strings.
RECURSIVE Join(_, _)
Join(parts, sep) ==
    IF Len(parts) = 0 THEN <<>>
    ELSE IF Len(parts) = 1 THEN parts[1]
    ELSE parts[1] \o <<sep>> \o Join(Tail(parts), sep)

\* String.prototype.split(sep) for a one-character separator.
RECURSIVE Split(_, _)
Split(s, sep) ==
    IF \A i \in DOMAIN s : s[i] # sep THEN <<s>>
    ELSE LET i == CHOOSE j \in DOMAIN s :
                      /\ s[j] = sep
                      /\ \A k \in 1..(j - 1) : s[k] # sep
         IN  <<SubSeq(s, 1, i - 1)>> \o Split(SubSeq(s, i + 1, Len(s)), sep)

\* A join that keeps the empty arguments.
keyJoinAll(args) == Join(args, ".")

\* keyJoin(...args): args.filter((_) => _).join(".")
keyJoin(args) == Join(SelectSeq(args, LAMBDA a : a # <<>>), ".")

\* `!${sublevel}!${id}`
ComposeKey(sublevel, id) == <<"!">> \o sublevel \o <<"!">> \o id

\* const [, collection, id] = key.split("!")
\* (a key without "!" has no second part; every key of the model has one)
KeyCollection(key) ==
    LET parts == Split(key, "!") IN IF Len(parts) >= 2 THEN parts[2] ELSE <<>>

KeyId(key) ==
    LET parts == Split(key, "!") IN IF Len(parts) >= 3 THEN parts[3] ELSE <<>>

(***************************************************************************)
(* The HIERARCHY table: per collection, its embedded fields in declaration *)
(* order (the order of Object.entries); array is TRUE for an embedded      *)
(* collection ([]) and FALSE for a single embedded document ({}).          *)
(***************************************************************************)
Coll(n) == [name |-> n, array |-> TRUE]

Single(n) == [name |-> n, array |-> FALSE]

HIERARCHY ==
    [ actors    |-> <<Coll("items"), Coll("effects")>>,
      cards     |-> <<Coll("cards")>>,
      combats   |-> <<Coll("combatants")>>,
      delta     |-> <<Coll("items"), Coll("effects")>>,
      items     |-> <<Coll("effects")>>,
      journal   |-> <<Coll("pages"), Coll("categories")>>,
      playlists |-> <<Coll("sounds")>>,
      regions   |-> <<Coll("behaviors")>>,
      tables    |-> <<Coll("results")>>,
      tokens    |-> <<Single("delta")>>,
      scenes    |-> <<Coll("drawings"), Coll("tokens"), Coll("lights"),
                      Coll("notes"), Coll("regions"), Coll("sounds"),
                      Coll("templates"), Coll("tiles"), Coll("walls")>> ]

\* A table in which a delta embeds nothing.
HierarchyEntriesShallow(collection) ==
    IF Len(collection) = 1 /\ collection[1] \in DOMAIN HIERARCHY \ {"delta"}
    THEN HIERARCHY[collection[1]]
    ELSE <<>>

\* Object.entries(HIERARCHY[collection] ?? {})
HierarchyEntries(collection) ==
    IF Len(collection) = 1 /\ collection[1] \in DOMAIN HIERARCHY
    THEN HIERARCHY[collection[1]]
    ELSE <<>>

(***************************************************************************)
(* Errors.  A run that throws ends with the thrown error in `error`.       *)
(***************************************************************************)
NoError == [kind |-> "none"]

Threw(kind, subject) == [kind |-> kind, subject |-> subject]

(***************************************************************************)
(* mapHierarchy(doc, collection, fn).  fn is named: "id" is packDoc's      *)
(* (d) => d._id, "get" is unpackDoc's lookup of the child key in the store *)
(* (env holds what that closure captures: db, sublevel, id).               *)
(***************************************************************************)
\* db.get(key): classic-level 2 resolves to undefined for a key not found.
DbGet(db, key) == IF key \in DOMAIN db THEN db[key] ELSE Undefined

\* `!${sublevel}.${embeddedCollectionName}!${id}.${embeddedId}`
ChildKey(sublevel, name, id, embeddedId) ==
    <<"!">> \o sublevel \o <<".", name>> \o <<"!">> \o id \o <<".">> \o embeddedId

\* `${value}` for a value of a mixed-type position.
Interpolated(value) ==
    IF IsStr(value) THEN value.str
    ELSE IF IsNull(value) THEN <<"null">>
    ELSE IF IsUndefined(value) THEN <<"undefined">>
    ELSE <<"[object Object]">>

\* A packDoc callback that keeps the embedded document where it is.
MapFnInline(fn, env, entry, name) ==
    IF fn = "id" THEN entry
    ELSE DbGet(env.db, ChildKey(env.sublevel, name, env.id, Interpolated(entry)))

\* The two callbacks handed to mapHierarchy: (d) => d._id, and the lookup
\* of the child key composed from the reference.
MapFn(fn, env, entry, name) ==
    IF fn = "id"
    THEN IF IsObject(entry) /\ Has(entry, "_id") THEN Str(entry._id) ELSE Undefined
    ELSE DbGet(env.db, ChildKey(env.sublevel, name, env.id, Interpolated(entry)))

\* d._id throws a TypeError when d is null or undefined.
MapFnThrows(fn, entry) == fn = "id" /\ (IsNull(entry) \/ IsUndefined(entry))

RECURSIVE MapEntries(_, _, _, _, _)

\* A mapHierarchy that leaves a field the document lacks as it is.
MapEntriesSparse(fn, env, doc, entries, i) ==
    IF i > Len(entries) THEN doc
    ELSE IF ~Has(doc, entries[i].name)
    THEN MapEntries(fn, env, doc, entries, i + 1)
    ELSE LET e == entries[i]
             v == IF e.array
                  THEN IF ArrayIsArray(doc[e.name])
                       THEN [j \in DOMAIN doc[e.name] |->
                                MapFn(fn, env, doc[e.name][j], e.name)]
                       ELSE <<>>
                  ELSE IF ~Falsy(doc[e.name])
                       THEN MapFn(fn, env, doc[e.name], e.name)
                       ELSE Null
         IN  MapEntries(fn, env, SetField(doc, e.name, v), entries, i + 1)

MapEntries(fn, env, doc, entries, i) ==
    IF i > Len(entries) THEN doc
    ELSE LET e == entries[i]
             v == IF e.array
                  THEN IF Has(doc, e.name) /\ ArrayIsArray(doc[e.name])
                       THEN [j \in DOMAIN doc[e.name] |->
                                MapFn(fn, env, doc[e.name][j], e.name)]
                       ELSE <<>>
                  ELSE IF Has(doc, e.name) /\ ~Falsy(doc[e.name])
                       THEN MapFn(fn, env, doc[e.name], e.name)
                       ELSE Null
         IN  MapEntries(fn, env, SetField(doc, e.name, v), entries, i + 1)

mapHierarchy(fn, env, doc, collection) ==
    MapEntries(fn, env, doc, HierarchyEntries(collection), 1)

mapHierarchyThrows(fn, doc, collection) ==
    LET entries == HierarchyEntries(collection) IN
    \E i \in DOMAIN entries :
        /\ Has(doc, entries[i].name)
        /\ IF entries[i].array
           THEN /\ ArrayIsArray(doc[entries[i].name])
                /\ \E j \in DOMAIN doc[entries[i].name] :
                       MapFnThrows(fn, doc[entries[i].name][j])
           ELSE /\ ~Falsy(doc[entries[i].name])
                /\ MapFnThrows(fn, doc[entries[i].name])

(***************************************************************************)
(* The two visitors.  A visitor takes the walker state st (seenKeys and    *)
(* batch of the compile run, db of the extract run, the error thrown so    *)
(* far, the visits made so far) and returns the mutated document, the      *)
(* options for the next level and the new state.                           *)
(***************************************************************************)
NoOptions == [sublevelPrefix |-> <<>>, idPrefix |-> <<>>]

Put(key, value) == [type |-> "put", key |-> key, value |-> value]

Del(key) == [type |-> "del", key |-> key]

\* What packDoc does with a value that is not an object.  Reading _key of
\* null or undefined is a TypeError.  A string has no _key: the seen-set
\* test fails, mapHierarchy assigns to a property of the string (a
\* TypeError in strict mode) when the collection embeds anything, and
\* otherwise batch.put(undefined, value) throws LEVEL_INVALID_KEY.
packPrimitive(doc, collection, st) ==
    [doc |-> doc, newOptions |-> NoOptions,
     st |-> [st EXCEPT !.err =
                IF IsStr(doc) /\ HierarchyEntries(collection) = <<>>
                THEN Threw("invalidKey", <<>>)
                ELSE Threw("type", <<>>)]]

\* A packDoc without the seenKeys.has(key) test.
packDocOverwriting(doc, collection, st) ==
    IF ~IsObject(doc) THEN packPrimitive(doc, collection, st)
    ELSE LET stripped == DeleteField(doc, "_key")
             seen == IF Has(doc, "_key") THEN st.seenKeys \cup {doc._key}
                     ELSE st.seenKeys
         IN
         IF mapHierarchyThrows("id", stripped, collection)
         THEN [doc |-> stripped, newOptions |-> NoOptions,
               st |-> [st EXCEPT !.seenKeys = seen,
                                 !.err = Threw("type", <<>>)]]
         ELSE IF ~Has(doc, "_key")
         THEN [doc |-> stripped, newOptions |-> NoOptions,
               st |-> [st EXCEPT !.err = Threw("invalidKey", <<>>)]]
         ELSE LET value == mapHierarchy("id", NoOptions, stripped, collection) IN
              [doc |-> stripped, newOptions |-> NoOptions,
               st |-> [st EXCEPT !.seenKeys = seen,
                                 !.batch = Append(@, Put(doc._key, value))]]

\* compileClassicLevel's packDoc: the seen-set test, seenKeys.add(key), the
\* clone reduced by mapHierarchy, batch.put.  batch.put(undefined, value)
\* throws LEVEL_INVALID_KEY; seenKeys is a set of strings in the model, and
\* the undefined key added to it just before that throw dies with the run.
packDoc(doc, collection, st) ==
    IF ~IsObject(doc) THEN packPrimitive(doc, collection, st)
    ELSE LET stripped == DeleteField(doc, "_key")
             seen == IF Has(doc, "_key") THEN st.seenKeys \cup {doc._key}
                     ELSE st.seenKeys
         IN
         IF Has(doc, "_key") /\ doc._key \in st.seenKeys
         THEN [doc |-> stripped, newOptions |-> NoOptions,
               st |-> [st EXCEPT !.err = Threw("duplicate", doc._key)]]
         ELSE IF mapHierarchyThrows("id", stripped, collection)
         THEN [doc |-> stripped, newOptions |-> NoOptions,
               st |-> [st EXCEPT !.seenKeys = seen,
                                 !.err = Threw("type", <<>>)]]
         ELSE IF ~Has(doc, "_key")
         THEN [doc |-> stripped, newOptions |-> NoOptions,
               st |-> [st EXCEPT !.err = Threw("invalidKey", <<>>)]]
         ELSE LET value == mapHierarchy("id", NoOptions, stripped, collection) IN
              [doc |-> stripped, newOptions |-> NoOptions,
               st |-> [st EXCEPT !.seenKeys = seen,
                                 !.batch = Append(@, Put(doc._key, value))]]

\* An unpackDoc that composes the id without options.idPrefix.
unpackDocUnprefixed(doc, collection, options, st) ==
    IF ~IsObject(doc)
    THEN [doc |-> doc, newOptions |-> NoOptions,
          st |-> [st EXCEPT !.err = Threw("type", <<>>)]]
    ELSE LET sublevel == keyJoin(<<options.sublevelPrefix, collection>>)
             id == StrField(doc, "_id")
             keyed == SetField(doc, "_key", ComposeKey(sublevel, id))
             env == [db |-> st.db, sublevel |-> sublevel, id |-> id]
         IN  [doc |-> mapHierarchy("get", env, keyed, collection),
              newOptions |-> [sublevelPrefix |-> sublevel, idPrefix |-> id],
              st |-> st]

\* extractClassicLevel's unpackDoc.
unpackDoc(doc, collection, options, st) ==
    IF ~IsObject(doc)
    THEN [doc |-> doc, newOptions |-> NoOptions,
          st |-> [st EXCEPT !.err = Threw("type", <<>>)]]
    ELSE LET sublevel == keyJoin(<<options.sublevelPrefix, collection>>)
             id == keyJoin(<<options.idPrefix, StrField(doc, "_id")>>)
             keyed == SetField(doc, "_key", ComposeKey(sublevel, id))
             env == [db |-> st.db, sublevel |-> sublevel, id |-> id]
         IN  [doc |-> mapHierarchy("get", env, keyed, collection),
              newOptions |-> [sublevelPrefix |-> sublevel, idPrefix |-> id],
              st |-> st]

Visit(fn, doc, collection, options, st) ==
    IF fn = "packDoc" THEN packDoc(doc, collection, st)
    ELSE unpackDoc(doc, collection, options, st)

(***************************************************************************)
(* applyHierarchy(fn): the walker.  apply returns the document as the      *)
(* walk left it and the state; once a visitor has thrown nothing more is   *)
(* visited.                                                                *)
(***************************************************************************)
VisitRecord(doc, collection, options, depth) ==
    [collection |-> collection,
     id |-> IF IsObject(doc) THEN StrField(doc, "_id") ELSE <<>>,
     options |-> options,
     depth |-> depth]

RECURSIVE apply(_, _, _, _, _, _)
RECURSIVE applyEntries(_, _, _, _, _, _, _)
RECURSIVE applyElements(_, _, _, _, _, _, _)

\* A walker that hands its own options, not the visitor's result, down.
applyFlat(fn, doc, collection, options, depth, st) ==
    LET logged == [st EXCEPT !.visits =
                       Append(@, VisitRecord(doc, collection, options, depth))]
        r == Visit(fn, doc, collection, options, logged)
    IN  IF r.st.err # NoError THEN [doc |-> r.doc, st |-> r.st]
        ELSE applyEntries(fn, r.doc, HierarchyEntries(collection), 1,
                          options, depth, r.st)

apply(fn, doc, collection, options, depth, st) ==
    LET logged == [st EXCEPT !.visits =
                       Append(@, VisitRecord(doc, collection, options, depth))]
        r == Visit(fn, doc, collection, options, logged)
    IN  IF r.st.err # NoError THEN [doc |-> r.doc, st |-> r.st]
        ELSE applyEntries(fn, r.doc, HierarchyEntries(collection), 1,
                          r.newOptions, depth, r.st)

applyEntries(fn, doc, entries, i, newOptions, depth, st) ==
    IF i > Len(entries) \/ st.err # NoError THEN [doc |-> doc, st |-> st]
    ELSE LET e == entries[i] IN
         IF ~Has(doc, e.name)
         THEN applyEntries(fn, doc, entries, i + 1, newOptions, depth, st)
         ELSE IF e.array /\ ArrayIsArray(doc[e.name])
         THEN LET r == applyElements(fn, doc[e.name], 1, e.name, newOptions,
                                     depth, st)
              IN  applyEntries(fn, SetField(doc, e.name, r.elements), entries,
                               i + 1, newOptions, depth, r.st)
         ELSE LET embeddedValue == IF e.array THEN Unboxed(doc[e.name])
                                   ELSE doc[e.name]
              IN  IF ~Falsy(embeddedValue)
                  THEN LET r == apply(fn, embeddedValue, <<e.name>>, newOptions,
                                      depth + 1, st)
                       IN  applyEntries(fn,
                                        SetField(doc, e.name,
                                                 IF e.array THEN NotArray(r.doc)
                                                 ELSE r.doc),
                                        entries, i + 1, newOptions, depth, r.st)
                  ELSE applyEntries(fn, doc, entries, i + 1, newOptions, depth, st)

\* A loop over the elements that stops after the first.
applyElementsHead(fn, elements, j, name, newOptions, depth, st) ==
    IF j > 1 \/ j > Len(elements) \/ st.err # NoError
    THEN [elements |-> elements, st |-> st]
    ELSE LET r == apply(fn, elements[j], <<name>>, newOptions, depth + 1, st)
         IN  applyElements(fn, [elements EXCEPT ![j] = r.doc], j + 1, name,
                           newOptions, depth, r.st)

applyElements(fn, elements, j, name, newOptions, depth, st) ==
    IF j > Len(elements) \/ st.err # NoError
    THEN [elements |-> elements, st |-> st]
    ELSE LET r == apply(fn, elements[j], <<name>>, newOptions, depth + 1, st)
         IN  applyElements(fn, [elements EXCEPT ![j] = r.doc], j + 1, name,
                           newOptions, depth, r.st)

applyHierarchy(fn, doc, collection, st) ==
    apply(fn, doc, collection, NoOptions, 1, st)

(***************************************************************************)
(* Key order.  LevelDB iterates keys in byte order.  TokenOrder lists the  *)
(* tokens that occur in the keys of the model in ASCII order; two keys     *)
(* compare token by token (a separator sorts below every alphanumeric      *)
(* character, so this is the byte order of the strings).                   *)
(***************************************************************************)
TokenOrder ==
    <<"!", ".", "abc", "actors", "d1", "d2", "d3", "delta", "e1", "e3",
      "effects", "fA", "fB", "fC", "fD", "fE", "fF", "fW", "fX", "fY", "fZ",
      "folders", "foldersX", "i1", "i2", "i3", "i7", "items", "m1", "q1",
      "q2", "q3", "q4", "q5", "s1", "s2", "s3", "s4", "scenes", "t1", "t2",
      "t3", "tokens", "zz">>

Rank(t) == CHOOSE i \in DOMAIN TokenOrder : TokenOrder[i] = t

RECURSIVE KeyLess(_, _)
KeyLess(a, b) ==
    IF Len(b) = 0 THEN FALSE
    ELSE IF Len(a) = 0 THEN TRUE
    ELSE IF a[1] = b[1] THEN KeyLess(Tail(a), Tail(b))
    ELSE Rank(a[1]) < Rank(b[1])

\* The elements of a set of keys in iteration order.
RECURSIVE SortedKeys(_)
SortedKeys(keys) ==
    IF keys = {} THEN <<>>
    ELSE LET first == CHOOSE k \in keys : \A o \in keys \ {k} : KeyLess(k, o)
         IN  <<first>> \o SortedKeys(keys \ {first})

(***************************************************************************)
(* The source files of the model.                                          *)
(***************************************************************************)
SourceFile(path, doc) == [path |-> path, malformed |-> FALSE, doc |-> doc]

\* An actor with one embedded item; every node carries its composite key.
hero ==
    SourceFile(<<"hero", ".", "json">>,
      [_key |-> <<"!", "actors", "!", "abc">>, _id |-> <<"abc">>,
       name |-> <<"Hero">>,
       items |-> <<[_key |-> <<"!", "actors", ".", "items", "!", "abc", ".", "i1">>,
                    _id |-> <<"i1">>, name |-> <<"Old", " ", "Sword">>]>>])

\* The same actor with an embedded item that carries no _key.
heroBare ==
    SourceFile(<<"heroBare", ".", "json">>,
      [_key |-> <<"!", "actors", "!", "abc">>, _id |-> <<"abc">>,
       name |-> <<"Hero">>,
       items |-> <<[_id |-> <<"i1">>, name |-> <<"Sword">>]>>])

\* The same actor key again; its item's _key does not end in the item's _id.
heroTwin ==
    SourceFile(<<"heroTwin", ".", "json">>,
      [_key |-> <<"!", "actors", "!", "abc">>, _id |-> <<"abc">>,
       name |-> <<"Twin">>,
       items |-> <<[_key |-> <<"!", "actors", ".", "items", "!", "abc", ".", "zz">>,
                    _id |-> <<"i2">>, name |-> <<"Axe">>]>>])

\* A scene without a name: a token, its delta (a singular field), an effect.
scene ==
    SourceFile(<<"scene", ".", "json">>,
      [_key |-> <<"!", "scenes", "!", "s1">>, _id |-> <<"s1">>,
       tokens |-> <<
         [_key |-> <<"!", "scenes", ".", "tokens", "!", "s1", ".", "t1">>,
          _id |-> <<"t1">>, name |-> <<"Orc">>,
          delta |->
            [_key |-> <<"!", "scenes", ".", "tokens", ".", "delta", "!",
                        "s1", ".", "t1", ".", "d1">>,
             _id |-> <<"d1">>,
             effects |-> <<
               [_key |-> <<"!", "scenes", ".", "tokens", ".", "delta", ".",
                           "effects", "!", "s1", ".", "t1", ".", "d1", ".", "e1">>,
                _id |-> <<"e1">>, name |-> <<"Rage">>]>>]]>>])

\* A scene whose token's delta is stored under a key that is not the one
\* composed from its position.
sceneLoose ==
    SourceFile(<<"sceneLoose", ".", "json">>,
      [_key |-> <<"!", "scenes", "!", "s2">>, _id |-> <<"s2">>,
       name |-> <<"Cave">>,
       tokens |-> <<
         [_key |-> <<"!", "scenes", ".", "tokens", "!", "s2", ".", "t2">>,
          _id |-> <<"t2">>,
          delta |->
            [_key |-> <<"!", "scenes", ".", "tokens", ".", "delta", "!",
                        "s2", ".", "t2", ".", "zz">>,
             _id |-> <<"d2">>]]>>])

\* A file whose own key has a two-segment collection path.
orphan ==
    SourceFile(<<"orphan", ".", "json">>,
      [_key |-> <<"!", "actors", ".", "items", "!", "abc", ".", "i7">>,
       _id |-> <<"i7">>, name |-> <<"Dagger">>])

\* A file JSON.parse rejects.
broken ==
    [path |-> <<"broken", ".", "json">>, malformed |-> TRUE, doc |-> Null]

\* The files that are combined freely into source directories.
FilePool == {hero, heroTwin, orphan, broken}

\* Three folders, C in B in A, and an actor filed in C.
folderA ==
    SourceFile(<<"folderA", ".", "json">>,
      [_key |-> <<"!", "folders", "!", "fA">>, _id |-> <<"fA">>,
       name |-> <<"A">>])

folderB ==
    SourceFile(<<"folderB", ".", "json">>,
      [_key |-> <<"!", "folders", "!", "fB">>, _id |-> <<"fB">>,
       name |-> <<"B">>, folder |-> <<"fA">>])

folderC ==
    SourceFile(<<"folderC", ".", "json">>,
      [_key |-> <<"!", "folders", "!", "fC">>, _id |-> <<"fC">>,
       name |-> <<"C">>, folder |-> <<"fB">>])

mage ==
    SourceFile(<<"mage", ".", "json">>,
      [_key |-> <<"!", "actors", "!", "m1">>, _id |-> <<"m1">>,
       name |-> <<"Mage">>, folder |-> <<"fC">>])

\* An actor with two items, out of key order; the first item has an effect,
\* the actor has no effects field.
band ==
    SourceFile(<<"band", ".", "json">>,
      [_key |-> <<"!", "actors", "!", "q1">>, _id |-> <<"q1">>,
       name |-> <<"Band">>,
       items |-> <<
         [_key |-> <<"!", "actors", ".", "items", "!", "q1", ".", "i2">>,
          _id |-> <<"i2">>, name |-> <<"Lute">>,
          effects |-> <<
            [_key |-> <<"!", "actors", ".", "items", ".", "effects", "!",
                        "q1", ".", "i2", ".", "e1">>,
             _id |-> <<"e1">>, name |-> <<"Charm">>]>>],
         [_key |-> <<"!", "actors", ".", "items", "!", "q1", ".", "i1">>,
          _id |-> <<"i1">>, name |-> <<"Drum">>]>>])

\* An actor with two items, each stored under the other's position.
imp ==
    SourceFile(<<"imp", ".", "json">>,
      [_key |-> <<"!", "actors", "!", "q2">>, _id |-> <<"q2">>,
       name |-> <<"Imp">>,
       items |-> <<
         [_key |-> <<"!", "actors", ".", "items", "!", "q2", ".", "i2">>,
          _id |-> <<"i1">>, name |-> <<"Horn">>],
         [_key |-> <<"!", "actors", ".", "items", "!", "q2", ".", "i1">>,
          _id |-> <<"i2">>, name |-> <<"Tail">>]>>])

\* A scene nested as deep as the table has it: a token, its delta, an item
\* of the delta, an effect of the item; and a second token without delta.
lair ==
    SourceFile(<<"lair", ".", "json">>,
      [_key |-> <<"!", "scenes", "!", "s3">>, _id |-> <<"s3">>,
       name |-> <<"Lair">>,
       tokens |-> <<
         [_key |-> <<"!", "scenes", ".", "tokens", "!", "s3", ".", "t3">>,
          _id |-> <<"t3">>,
          delta |->
            [_key |-> <<"!", "scenes", ".", "tokens", ".", "delta", "!",
                        "s3", ".", "t3", ".", "d3">>,
             _id |-> <<"d3">>,
             items |-> <<
               [_key |-> <<"!", "scenes", ".", "tokens", ".", "delta", ".",
                           "items", "!", "s3", ".", "t3", ".", "d3", ".", "i3">>,
                _id |-> <<"i3">>,
                effects |-> <<
                  [_key |-> <<"!", "scenes", ".", "tokens", ".", "delta", ".",
                              "items", ".", "effects", "!",
                              "s3", ".", "t3", ".", "d3", ".", "i3", ".", "e3">>,
                   _id |-> <<"e3">>]>>]>>]],
         [_key |-> <<"!", "scenes", ".", "tokens", "!", "s3", ".", "t1">>,
          _id |-> <<"t1">>, name |-> <<"Bat">>]>>])

\* An actor whose items field holds null, not a sequence, with two effects
\* out of key order.
ghost ==
    SourceFile(<<"ghost", ".", "json">>,
      [_key |-> <<"!", "actors", "!", "q3">>, _id |-> <<"q3">>,
       name |-> <<"Ghost">>, items |-> NotArray(Null),
       effects |-> <<
         [_key |-> <<"!", "actors", ".", "effects", "!", "q3", ".", "e3">>,
          _id |-> <<"e3">>, name |-> <<"Chill">>],
         [_key |-> <<"!", "actors", ".", "effects", "!", "q3", ".", "e1">>,
          _id |-> <<"e1">>, name |-> <<"Wail">>]>>])

\* A scene with embedded documents that carry no _id: the delta of its
\* first token, and its second token.
noid ==
    SourceFile(<<"noid", ".", "json">>,
      [_key |-> <<"!", "scenes", "!", "s4">>, _id |-> <<"s4">>,
       name |-> <<"Fog">>,
       tokens |-> <<
         [_key |-> <<"!", "scenes", ".", "tokens", "!", "s4", ".", "t1">>,
          _id |-> <<"t1">>,
          delta |->
            [_key |-> <<"!", "scenes", ".", "tokens", ".", "delta", "!",
                        "s4", ".", "t1", ".", "d1">>,
             name |-> <<"Mist">>]],
         [_key |-> <<"!", "scenes", ".", "tokens", "!", "s4", ".", "zz">>,
          name |-> <<"Haze">>]>>])

\* An actor with a string where an embedded document is expected.
stri ==
    SourceFile(<<"stri", ".", "json">>,
      [_key |-> <<"!", "actors", "!", "q4">>, _id |-> <<"q4">>,
       effects |-> <<Str(<<"x">>)>>])

\* An actor with a string where an embedded document that embeds others is
\* expected.
strand ==
    SourceFile(<<"strand", ".", "json">>,
      [_key |-> <<"!", "actors", "!", "q5">>, _id |-> <<"q5">>,
       items |-> <<Str(<<"x">>)>>])

\* A document under the empty key.
blank ==
    SourceFile(<<"blank", ".", "json">>,
      [_key |-> <<>>, _id |-> <<"abc">>, name |-> <<"Blank">>])

\* A directory entry that is a directory, with its own entries in readdir
\* order.
SubDir(name, entries) == [path |-> name, entries |-> entries]

\* band lies in a subdirectory.
NestedDirs ==
    { <<SubDir(<<"sub">>, <<band>>), ghost>>, <<imp>>, <<lair>>, <<noid>>,
      <<stri>>, <<strand>>, <<blank>>, <<blank, mage>> }

\* Folders whose parent references go round: X in Y in X, W in X, and Z in
\* itself.
loopX ==
    SourceFile(<<"loopX", ".", "json">>,
      [_key |-> <<"!", "folders", "!", "fX">>, _id |-> <<"fX">>,
       name |-> <<"X">>, folder |-> <<"fY">>])

loopY ==
    SourceFile(<<"loopY", ".", "json">>,
      [_key |-> <<"!", "folders", "!", "fY">>, _id |-> <<"fY">>,
       name |-> <<"Y">>, folder |-> <<"fX">>])

stem ==
    SourceFile(<<"stem", ".", "json">>,
      [_key |-> <<"!", "folders", "!", "fW">>, _id |-> <<"fW">>,
       name |-> <<"W">>, folder |-> <<"fX">>])

knot ==
    SourceFile(<<"knot", ".", "json">>,
      [_key |-> <<"!", "folders", "!", "fZ">>, _id |-> <<"fZ">>,
       name |-> <<"Z">>, folder |-> <<"fZ">>])

CyclicDirs == { <<loopX, loopY, stem>>, <<knot>> }

\* A folder under a key that only begins with "!folders", with a name that
\* is not ASCII, and an actor filed in it.
annex ==
    SourceFile(<<"annex", ".", "json">>,
      [_key |-> <<"!", "foldersX", "!", "zz">>, _id |-> <<"zz">>,
       name |-> <<"Caf", "\\u00e9">>])

usher ==
    SourceFile(<<"usher", ".", "json">>,
      [_key |-> <<"!", "actors", "!", "q1">>, _id |-> <<"q1">>,
       name |-> <<"na", "\\u00ef", "ve">>, folder |-> <<"zz">>])

\* A folder whose _id is the empty string, and an actor whose folder is.
hollow ==
    SourceFile(<<"hollow", ".", "json">>,
      [_key |-> <<"!", "folders", "!">>, _id |-> <<>>, name |-> <<"A">>])

wisp ==
    SourceFile(<<"wisp", ".", "json">>,
      [_key |-> <<"!", "actors", "!", "q2">>, _id |-> <<"q2">>,
       name |-> <<"Wisp">>, folder |-> <<>>])

\* A folder without _id whose parent is not there, and an actor without
\* folder.
nomad ==
    SourceFile(<<"nomad", ".", "json">>,
      [_key |-> <<"!", "folders", "!", "fW">>, name |-> <<"W">>,
       folder |-> <<"fZ">>])

drift ==
    SourceFile(<<"drift", ".", "json">>,
      [_key |-> <<"!", "actors", "!", "q3">>, _id |-> <<"q3">>,
       name |-> <<"Drift">>])

\* A folder without _id and without folder.
stray ==
    SourceFile(<<"stray", ".", "json">>,
      [_key |-> <<"!", "folders", "!", "fY">>, name |-> <<"Y">>])

OddDirs == { <<annex, usher>>, <<hollow, wisp>>, <<nomad, drift>>, <<stray>> }

\* Three folders whose keys sort the children first: D in E in F.
folderD ==
    SourceFile(<<"folderD", ".", "json">>,
      [_key |-> <<"!", "folders", "!", "fD">>, _id |-> <<"fD">>,
       name |-> <<"D">>, folder |-> <<"fE">>])

folderE ==
    SourceFile(<<"folderE", ".", "json">>,
      [_key |-> <<"!", "folders", "!", "fE">>, _id |-> <<"fE">>,
       name |-> <<"E">>, folder |-> <<"fF">>])

folderF ==
    SourceFile(<<"folderF", ".", "json">>,
      [_key |-> <<"!", "folders", "!", "fF">>, _id |-> <<"fF">>,
       name |-> <<"F">>])

\* A directory is the sequence of its entries in readdir order.
FolderDirs ==
    { <<folderA, folderB, folderC, mage>>,
      <<mage, folderC, folderB>>,
      <<folderD, folderE, folderF>> }

\* Directories with the files whose embedded keys are missing or off, and
\* with the scene.
LooseDirs ==
    { <<heroBare>>, <<hero, heroBare>>, <<scene, heroBare>>,
      <<sceneLoose>>, <<scene, sceneLoose>>, <<scene>>, <<scene, hero>> }

SourceDirs ==
    { d \in UNION {[1..n -> FilePool] : n \in 0..MaxFiles} :
          \A i, j \in DOMAIN d : i # j => d[i] # d[j] }
    \cup FolderDirs \cup LooseDirs \cup NestedDirs \cup CyclicDirs \cup OddDirs

(***************************************************************************)
(* State.                                                                  *)
(***************************************************************************)
VARIABLES
    store,        \* the LevelDB pack: composite key -> stored value
    dbOpen,       \* a ClassicLevel handle on the pack is open (holds its lock)
    pc,           \* where the current run stands; "idle" between runs
    options,      \* the options of the current (or last) run
    files,        \* compile: the source files found, in order
    fileIdx,      \* compile: index of the next file to pack
    seenKeys,     \* compile: the keys packed in this run
    batch,        \* compile: the chained batch, a sequence of put/del
    compacted,    \* compile: the range handed to db.compactRange, or <<>>
    packedFrom,   \* history: the source files the last compile run wrote
                  \* the store from (none until the run has written)
    dbCalls,      \* history: the calls the run has made on the database handle
    skipped,      \* history: the indexes of the files transformEntry discarded
    packVisits,   \* history: the calls of packDoc in the walk of the last file
    storeAtOpen,  \* the store as it was when the current (or last) run opened it
    error,        \* the error the last run threw, NoError if none
    console,      \* what the current (or last) run logged
    destDir,      \* the extraction directory: whether it exists, its files
    foldersMap,   \* extract: folder _id -> name, parent reference, path
    cursor,       \* extract: the keys the main pass has still to visit
    written,      \* extract: key, file name and naming of every file written
    walked,       \* extract: the keys the walker was started on
    dropped,      \* history: the keys of the entries transformEntry discarded
    unpackVisits, \* history: the calls of unpackDoc in the walk of the last entry
    extractedFrom \* history: the store and options destDir was extracted with

compileVars == <<files, fileIdx, seenKeys, batch, compacted, packedFrom,
                 skipped, packVisits>>

extractVars == <<foldersMap, cursor, written, walked, dropped, unpackVisits>>

vars == <<store, dbOpen, pc, options, files, fileIdx, seenKeys, batch,
          compacted, packedFrom, skipped, packVisits, storeAtOpen, error,
          console, destDir, foldersMap, cursor, written, walked, dropped,
          unpackVisits, extractedFrom, dbCalls>>

EmptyStore == [k \in {} |-> Null]

NoRun == [op |-> "none"]

EmptyMap == [k \in {} |-> Null]

\* No record of where the store, or the extraction directory, came from.
NoSource == [known |-> FALSE]

\* A directory that does not exist, and one that does.
NoDir == [exists |-> FALSE, files |-> EmptyMap]

Dir(fs) == [exists |-> TRUE, files |-> fs]

Init ==
    /\ store = EmptyStore
    /\ dbOpen = FALSE
    /\ pc = "idle"
    /\ options = NoRun
    /\ files = <<>>
    /\ fileIdx = 1
    /\ seenKeys = {}
    /\ batch = <<>>
    /\ compacted = <<>>
    /\ storeAtOpen = EmptyStore
    /\ error = NoError
    /\ console = <<>>
    /\ destDir = NoDir
    /\ foldersMap = EmptyMap
    /\ cursor = <<>>
    /\ written = <<>>
    /\ walked = <<>>
    /\ dropped = <<>>
    /\ unpackVisits = <<>>
    /\ skipped = <<>>
    /\ packVisits = <<>>
    /\ dbCalls = <<>>
    /\ packedFrom = NoSource
    /\ extractedFrom = NoSource

(***************************************************************************)
(* Compiling.                                                              *)
(***************************************************************************)
\* The last index of the token t in s, 0 if there is none.
LastIndexOf(s, t) ==
    IF \E i \in DOMAIN s : s[i] = t
    THEN CHOOSE i \in DOMAIN s : s[i] = t /\ \A j \in (i + 1)..Len(s) : s[j] # t
    ELSE 0

\* The path without the "/" it ends in.
RECURSIVE TrimSlashes(_)
TrimSlashes(path) ==
    IF Len(path) > 0 /\ path[Len(path)] = "/"
    THEN TrimSlashes(SubSeq(path, 1, Len(path) - 1))
    ELSE path

\* path.extname(file): from the last "." of the base name to its end; the
\* empty string when the base name has no ".", when its last "." is its
\* first character, and for the base name "..".
ExtName(path) ==
    LET trimmed == TrimSlashes(path)
        base == SubSeq(trimmed, LastIndexOf(trimmed, "/") + 1, Len(trimmed))
        startDot == LastIndexOf(base, ".")
    IN  IF startDot <= 1 \/ base = <<".", ".">> THEN <<>>
        ELSE SubSeq(base, startDot, Len(base))

IsYamlExt(ext) == ext = <<".", "yml">> \/ ext = <<".", "yaml">>

\* The segments a normalised path keeps (normalizeString of path.posix): an
\* empty segment and "." are dropped; ".." takes back the segment before it,
\* and is kept where there is none to take back and the path is relative.
RECURSIVE NormalizeSegments(_, _, _)
NormalizeSegments(segments, kept, allowAboveRoot) ==
    IF Len(segments) = 0 THEN kept
    ELSE LET segment == segments[1]
             rest == Tail(segments)
         IN  IF segment = <<>> \/ segment = <<".">>
             THEN NormalizeSegments(rest, kept, allowAboveRoot)
             ELSE IF segment # <<".", ".">>
             THEN NormalizeSegments(rest, Append(kept, segment), allowAboveRoot)
             ELSE IF Len(kept) > 0 /\ kept[Len(kept)] # <<".", ".">>
             THEN NormalizeSegments(rest, SubSeq(kept, 1, Len(kept) - 1),
                                    allowAboveRoot)
             ELSE IF allowAboveRoot
             THEN NormalizeSegments(rest, Append(kept, segment), allowAboveRoot)
             ELSE NormalizeSegments(rest, kept, allowAboveRoot)

\* path.normalize(path)
PathNormalize(path) ==
    IF Len(path) = 0 THEN <<".">>
    ELSE LET isAbsolute == path[1] = "/"
             trailingSeparator == path[Len(path)] = "/"
             normalized == Join(NormalizeSegments(Split(path, "/"), <<>>,
                                                  ~isAbsolute), "/")
         IN  IF Len(normalized) = 0
             THEN (IF isAbsolute THEN <<"/">>
                   ELSE IF trailingSeparator THEN <<".", "/">>
                   ELSE <<".">>)
             ELSE (IF isAbsolute THEN <<"/">> ELSE <<>>)
                  \o normalized
                  \o (IF trailingSeparator THEN <<"/">> ELSE <<>>)

\* path.join(a, b): the arguments that are not empty, joined by "/" and
\* normalised; "." when both are empty.
PathJoin(a, b) ==
    IF Len(a) = 0 THEN PathNormalize(b)
    ELSE IF Len(b) = 0 THEN PathNormalize(a)
    ELSE PathNormalize(a \o <<"/">> \o b)

\* The directory a run is given, src of compilePack and dest of
\* extractPack, is the working directory; the paths of the model are
\* relative to it.
Here == <<".">>

\* entry.isDirectory(), entry.isFile(); an entry may be neither.
IsDirectory(entry) == "entries" \in DOMAIN entry

IsFile(entry) == "doc" \in DOMAIN entry

\* findSourceFiles(root, {yaml, recursive}).  entries is what readdirSync
\* lists for root.  A file found is the entry with its joined path.
RECURSIVE findSourceFiles(_, _, _, _)
findSourceFiles(root, entries, yaml, recursive) ==
    IF Len(entries) = 0 THEN <<>>
    ELSE LET entry == entries[1]
             name == PathJoin(root, entry.path)
             ext == ExtName(name)
             found ==
                 IF IsDirectory(entry) /\ recursive
                 THEN findSourceFiles(name, entry.entries, yaml, recursive)
                 ELSE IF ~IsFile(entry) THEN <<>>
                 ELSE IF yaml /\ IsYamlExt(ext) THEN <<[entry EXCEPT !.path = name]>>
                 ELSE IF ~yaml /\ ext = <<".", "json">>
                 THEN <<[entry EXCEPT !.path = name]>>
                 ELSE <<>>
         IN  found \o findSourceFiles(root, Tail(entries), yaml, recursive)

CompileOptions(log, transformEntry) ==
    [op |-> "compile", log |-> log, transformEntry |-> transformEntry]

\* compilePack down to `await db.open()` in compileClassicLevel.  Opening a
\* pack whose lock another handle of the process still holds fails.
CompilePack(dir, nedb, yaml, recursive, log, transformEntry) ==
    /\ pc = "idle"
    /\ UNCHANGED <<destDir, extractedFrom, extractVars>>
    /\ options' = CompileOptions(log, transformEntry)
    /\ dbCalls' = IF nedb \/ dbOpen THEN <<>> ELSE <<"open">>
    /\ packedFrom' = NoSource
    /\ UNCHANGED <<store, fileIdx, seenKeys, batch, compacted,
                   skipped, packVisits, storeAtOpen, console>>
    /\ IF nedb
       THEN /\ error' = Threw("nedb", <<>>)
            /\ pc' = "thrown"
            /\ UNCHANGED <<files, dbOpen>>
       ELSE IF dbOpen
       THEN /\ error' = Threw("open", <<>>)
            /\ pc' = "thrown"
            /\ UNCHANGED <<files, dbOpen>>
       ELSE /\ error' = NoError
            /\ files' = findSourceFiles(Here, dir, yaml, recursive)
            /\ dbOpen' = TRUE
            /\ pc' = "packing"

\* Fields of a Document that hold an embedded collection, and those that
\* hold a single embedded document, by the HIERARCHY table.
ArrayFields ==
    {e.name : e \in {en \in UNION {Range(HIERARCHY[c]) : c \in DOMAIN HIERARCHY} :
                        en.array}}

SingleFields ==
    {e.name : e \in {en \in UNION {Range(HIERARCHY[c]) : c \in DOMAIN HIERARCHY} :
                        ~en.array}}

\* Whether the property g of the object v holds undefined.
HoldsUndefined(v, g) ==
    \/ g \in SingleFields /\ IsUndefined(v[g])
    \/ g \in ArrayFields /\ ~ArrayIsArray(v[g]) /\ IsUndefined(Unboxed(v[g]))

\* JSON.parse(JSON.stringify(v)): a property whose value is undefined is
\* left out; undefined in an array becomes null.
RECURSIVE JsonValue(_)
JsonValue(v) ==
    IF ~IsObject(v) THEN (IF IsUndefined(v) THEN Null ELSE v)
    ELSE [f \in {g \in DOMAIN v : ~HoldsUndefined(v, g)} |->
             IF f \in SingleFields THEN JsonValue(v[f])
             ELSE IF f \in ArrayFields
                  THEN IF ArrayIsArray(v[f])
                       THEN [j \in DOMAIN v[f] |-> JsonValue(v[f][j])]
                       ELSE NotArray(JsonValue(Unboxed(v[f])))
                  ELSE v[f]]

\* batch.write(): the operations of the batch, in order, as one atomic
\* write.  The value of a put is stored in its JSON encoding (valueEncoding
\* "json").
RECURSIVE ApplyBatch(_, _)
ApplyBatch(db, ops) ==
    IF Len(ops) = 0 THEN db
    ELSE LET o == ops[1]
             next == IF o.type = "put"
                     THEN [k \in (DOMAIN db) \cup {o.key} |->
                              IF k = o.key THEN JsonValue(o.value) ELSE db[k]]
                     ELSE [k \in (DOMAIN db) \ {o.key} |-> db[k]]
         IN  ApplyBatch(next, Tail(ops))

\* A catch block that writes what was staged before it rethrows.
FailToPackFlushing(file, st) ==
    /\ error' = st.err
    /\ console' = console
    /\ pc' = "thrown"
    /\ seenKeys' = st.seenKeys
    /\ batch' = st.batch
    /\ store' = ApplyBatch(store, st.batch)
    /\ UNCHANGED <<dbOpen, options, files, fileIdx, compacted, packedFrom,
                   packVisits, storeAtOpen>>

\* The catch block of the file loop: log, then rethrow err as it is.  st
\* is the state of the walk at the throw: the seen-set and the batch keep
\* what the file added to them before it failed.
FailToPack(file, st) ==
    /\ error' = st.err
    /\ console' = IF options.log
                  THEN Append(console, [level |-> "error",
                                        text |-> <<"Failed to pack">>,
                                        subject |-> file.path])
                  ELSE console
    /\ pc' = "thrown"
    /\ seenKeys' = st.seenKeys
    /\ batch' = st.batch
    /\ UNCHANGED <<store, dbOpen, options, files, fileIdx, compacted,
                   packedFrom, packVisits, storeAtOpen>>

\* A test that never finds the discard signal.
DiscardsNever(outcome) == FALSE

\* (await transformEntry?.(doc)) === false
Discards(outcome) == outcome = "discard"

\* One turn of the file loop.  outcome is what options.transformEntry does
\* with the document: "keep" (returns nothing), "discard" (returns false) or
\* "throw".
CompileFile(outcome) ==
    /\ pc = "packing"
    /\ fileIdx <= Len(files)
    /\ outcome \in IF options.transformEntry THEN {"keep", "discard", "throw"}
                   ELSE {"keep"}
    /\ UNCHANGED <<destDir, extractedFrom, extractVars, dbCalls>>
    /\ skipped' = IF /\ outcome = "discard"
                     /\ ~files[fileIdx].malformed
                     /\ Has(files[fileIdx].doc, "_key")
                  THEN Append(skipped, fileIdx)
                  ELSE skipped
    /\ LET file == files[fileIdx]
           doc == file.doc
           st0 == [db |-> store, seenKeys |-> seenKeys, batch |-> batch,
                   err |-> NoError, visits |-> <<>>]
       IN  IF file.malformed
           THEN FailToPack(file, [st0 EXCEPT !.err = Threw("parse", <<>>)])
           ELSE IF ~Has(doc, "_key")
           THEN FailToPack(file, [st0 EXCEPT !.err = Threw("type", <<>>)])
           ELSE IF outcome = "throw"
           THEN FailToPack(file, [st0 EXCEPT !.err = Threw("transform", <<>>)])
           ELSE IF Discards(outcome)
           THEN /\ fileIdx' = fileIdx + 1
                /\ UNCHANGED <<store, dbOpen, pc, options, files, seenKeys,
                               batch, compacted, packedFrom, packVisits,
                               storeAtOpen, error, console>>
           ELSE LET r == applyHierarchy("packDoc", doc,
                                        KeyCollection(doc._key), st0)
                IN  IF r.st.err # NoError THEN FailToPack(file, r.st)
                    ELSE /\ seenKeys' = r.st.seenKeys
                         /\ batch' = r.st.batch
                         /\ packVisits' = r.st.visits
                         /\ fileIdx' = fileIdx + 1
                         /\ console' =
                              IF options.log
                              THEN Append(console,
                                     [level |-> "log", text |-> <<"Packed">>,
                                      subject |-> IF Has(doc, "_id")
                                                  THEN doc._id
                                                  ELSE <<"undefined">>])
                              ELSE console
                         /\ UNCHANGED <<store, dbOpen, pc, options, files,
                                        compacted, packedFrom, storeAtOpen,
                                        error>>

\* A run that stages no deletion.
StaleDeletesNone(keys, seen) == <<>>

\* "Remove any entries in the DB that are not part of the source set."
RECURSIVE StaleDeletes(_, _)
StaleDeletes(keys, seen) ==
    IF Len(keys) = 0 THEN <<>>
    ELSE (IF keys[1] \in seen THEN <<>> ELSE <<Del(keys[1])>>)
         \o StaleDeletes(Tail(keys), seen)

RECURSIVE RemovedLines(_)
RemovedLines(dels) ==
    IF Len(dels) = 0 THEN <<>>
    ELSE <<[level |-> "log", text |-> <<"Removed">>, subject |-> dels[1].key]>>
         \o RemovedLines(Tail(dels))

StageDeletes ==
    /\ pc = "packing"
    /\ fileIdx > Len(files)
    /\ LET dels == StaleDeletes(SortedKeys(DOMAIN store), seenKeys)
       IN  /\ batch' = batch \o dels
           /\ console' = IF options.log THEN console \o RemovedLines(dels)
                         ELSE console
    /\ pc' = "write"
    /\ UNCHANGED <<destDir, extractedFrom, extractVars, dbCalls>>
    /\ UNCHANGED <<store, dbOpen, options, files, fileIdx, seenKeys,
                   compacted, packedFrom, skipped, packVisits, storeAtOpen,
                   error>>

BatchWrite ==
    /\ pc = "write"
    /\ store' = ApplyBatch(store, batch)
    /\ packedFrom' = IF options.transformEntry THEN NoSource
                     ELSE [known |-> TRUE, files |-> Range(files)]
    /\ pc' = "compact"
    /\ dbCalls' = Append(dbCalls, "write")
    /\ UNCHANGED <<destDir, extractedFrom, extractVars>>
    /\ UNCHANGED <<dbOpen, options, files, fileIdx, seenKeys, batch,
                   compacted, skipped, packVisits, storeAtOpen, error,
                   console>>

\* A compaction of the first key alone.
compactToFirst(db) ==
    LET keys == SortedKeys(DOMAIN db)
    IN  IF Len(keys) > 0 /\ keys[1] # <<>> /\ keys[Len(keys)] # <<>>
        THEN <<keys[1], keys[1]>>
        ELSE <<>>

\* compactClassicLevel(db): the range handed to db.compactRange, <<>> when
\* it is not called.  firstKey and lastKey are undefined in an empty store;
\* `if (firstKey && lastKey)` also fails for a key that is the empty string.
compactClassicLevel(db) ==
    LET keys == SortedKeys(DOMAIN db)
    IN  IF Len(keys) > 0 /\ keys[1] # <<>> /\ keys[Len(keys)] # <<>>
        THEN <<keys[1], keys[Len(keys)]>>
        ELSE <<>>

Compact ==
    /\ pc = "compact"
    /\ compacted' = compactClassicLevel(store)
    /\ dbCalls' = IF compactClassicLevel(store) # <<>>
                  THEN Append(dbCalls, "compactRange") ELSE dbCalls
    /\ pc' = "close"
    /\ UNCHANGED <<destDir, extractedFrom, extractVars>>
    /\ UNCHANGED <<store, dbOpen, options, files, fileIdx, seenKeys, batch,
                   packedFrom, skipped, packVisits, storeAtOpen, error,
                   console>>

CompileClose ==
    /\ pc = "close"
    /\ dbOpen' = FALSE
    /\ dbCalls' = Append(dbCalls, "close")
    /\ pc' = "returned"
    /\ UNCHANGED <<destDir, extractedFrom, extractVars>>
    /\ UNCHANGED <<store, options, files, fileIdx, seenKeys, batch,
                   compacted, packedFrom, skipped, packVisits, storeAtOpen,
                   error, console>>

(***************************************************************************)
(* Between runs.                                                           *)
(***************************************************************************)
\* The caller has the outcome of the run (pc is "returned" or "thrown");
\* the run's locals are dropped and another run may start.
Settle ==
    /\ pc \in {"returned", "thrown"}
    /\ pc' = "idle"
    /\ options' = NoRun
    /\ files' = <<>>
    /\ fileIdx' = 1
    /\ seenKeys' = {}
    /\ batch' = <<>>
    /\ compacted' = <<>>
    /\ storeAtOpen' = store
    /\ error' = NoError
    /\ console' = <<>>
    /\ foldersMap' = EmptyMap
    /\ cursor' = <<>>
    /\ written' = <<>>
    /\ walked' = <<>>
    /\ dropped' = <<>>
    /\ unpackVisits' = <<>>
    /\ skipped' = <<>>
    /\ packVisits' = <<>>
    /\ dbCalls' = <<>>
    /\ UNCHANGED <<store, dbOpen, destDir, packedFrom, extractedFrom>>

\* The process ends, or the handle a run that threw left open is collected:
\* the lock on the pack is released.
ReleaseHandle ==
    /\ pc = "idle"
    /\ dbOpen
    /\ dbOpen' = FALSE
    /\ UNCHANGED dbCalls
    /\ UNCHANGED <<store, pc, options, files, fileIdx, seenKeys, batch,
                   compacted, packedFrom, skipped, packVisits, storeAtOpen,
                   error, console, destDir, extractedFrom, extractVars>>

(***************************************************************************)
(* Extracting.                                                             *)
(***************************************************************************)
\* The characters of the class [a-zA-Z0-9].
AlphaNumeric ==
    {"a", "b", "c", "d", "e", "f", "g", "h", "i", "j", "k", "l", "m",
     "n", "o", "p", "q", "r", "s", "t", "u", "v", "w", "x", "y", "z",
     "A", "B", "C", "D", "E", "F", "G", "H", "I", "J", "K", "L", "M",
     "N", "O", "P", "Q", "R", "S", "T", "U", "V", "W", "X", "Y", "Z",
     "0", "1", "2", "3", "4", "5", "6", "7", "8", "9"}

\* The token of a character outside ASCII.
IsEscape(token) == Len(token) >= 6 /\ SubSeq(token, 1, 2) = "\\u"

\* The code point of the character of a four-digit escape.
HexValue(token) ==
    LET digits == "0123456789abcdef"
        Digit(i) == (CHOOSE d \in 1..16 :
                         SubSeq(digits, d, d) = SubSeq(token, i, i)) - 1
    IN  4096 * Digit(3) + 256 * Digit(4) + 16 * Digit(5) + Digit(6)

\* The token of a combining mark of the class U+0300-U+036F.
IsMark(token) ==
    /\ IsEscape(token)
    /\ Len(token) = 6
    /\ SubSeq(token, 3, 4) = "03"
    /\ SubSeq(token, 5, 5) \in {"0", "1", "2", "3", "4", "5", "6"}

\* The token of a Hangul syllable, U+AC00-U+D7A3.
IsHangul(token) ==
    /\ IsEscape(token)
    /\ Len(token) = 6
    /\ SubSeq(token, 3, 3) \in {"a", "b", "c", "d"}
    /\ HexValue(token) \in 44032..55203

\* The token of the character of a code point below U+10000.
Escape(n) ==
    LET digits == "0123456789abcdef"
        Digit(d) == SubSeq(digits, d + 1, d + 1)
    IN  "\\u" \o Digit(n \div 4096) \o Digit((n \div 256) % 16)
              \o Digit((n \div 16) % 16) \o Digit(n % 16)

\* The characters of a string, one token each.
RECURSIVE Characters(_)
Characters(filename) ==
    IF Len(filename) = 0 THEN <<>>
    ELSE (IF IsEscape(filename[1]) THEN <<filename[1]>>
          ELSE [j \in 1..Len(filename[1]) |-> SubSeq(filename[1], j, j)])
         \o Characters(Tail(filename))

\* The canonical combining class of every character that has one other
\* than 0 (Unicode 17).
CombiningClasses ==
    <<[class |-> 1, marks |-> {"\\u0334", "\\u0335", "\\u0336", "\\u0337",
          "\\u0338", "\\u1cd4", "\\u1ce2", "\\u1ce3", "\\u1ce4", "\\u1ce5",
          "\\u1ce6", "\\u1ce7", "\\u1ce8", "\\u20d2", "\\u20d3", "\\u20d8",
          "\\u20d9", "\\u20da", "\\u20e5", "\\u20e6", "\\u20ea", "\\u20eb",
          "\\u{10a39}", "\\u{16af0}", "\\u{16af1}", "\\u{16af2}",
          "\\u{16af3}", "\\u{16af4}", "\\u{1bc9e}", "\\u{1d167}",
          "\\u{1d168}", "\\u{1d169}"}],
      [class |-> 6, marks |-> {"\\u{16ff0}", "\\u{16ff1}"}],
      [class |-> 7, marks |-> {"\\u093c", "\\u09bc", "\\u0a3c", "\\u0abc",
          "\\u0b3c", "\\u0c3c", "\\u0cbc", "\\u1037", "\\u1b34", "\\u1be6",
          "\\u1c37", "\\ua9b3", "\\u{110ba}", "\\u{11173}", "\\u{111ca}",
          "\\u{11236}", "\\u{112e9}", "\\u{1133b}", "\\u{1133c}",
          "\\u{11446}", "\\u{114c3}", "\\u{115c0}", "\\u{116b7}",
          "\\u{1183a}", "\\u{11943}", "\\u{11d42}", "\\u{1e94a}"}],
      [class |-> 8, marks |-> {"\\u3099", "\\u309a"}],
      [class |-> 9, marks |-> {"\\u094d", "\\u09cd", "\\u0a4d", "\\u0acd",
          "\\u0b4d", "\\u0bcd", "\\u0c4d", "\\u0ccd", "\\u0d3b", "\\u0d3c",
          "\\u0d4d", "\\u0dca", "\\u0e3a", "\\u0eba", "\\u0f84", "\\u1039",
          "\\u103a", "\\u1714", "\\u1715", "\\u1734", "\\u17d2", "\\u1a60",
          "\\u1b44", "\\u1baa", "\\u1bab", "\\u1bf2", "\\u1bf3", "\\u2d7f",
          "\\ua806", "\\ua82c", "\\ua8c4", "\\ua953", "\\ua9c0", "\\uaaf6",
          "\\uabed", "\\u{10a3f}", "\\u{11046}", "\\u{11070}", "\\u{1107f}",
          "\\u{110b9}", "\\u{11133}", "\\u{11134}", "\\u{111c0}",
          "\\u{11235}", "\\u{112ea}", "\\u{1134d}", "\\u{113ce}",
          "\\u{113cf}", "\\u{113d0}", "\\u{11442}", "\\u{114c2}",
          "\\u{115bf}", "\\u{1163f}", "\\u{116b6}", "\\u{1172b}",
          "\\u{11839}", "\\u{1193d}", "\\u{1193e}", "\\u{119e0}",
          "\\u{11a34}", "\\u{11a47}", "\\u{11a99}", "\\u{11c3f}",
          "\\u{11d44}", "\\u{11d45}", "\\u{11d97}", "\\u{11f41}",
          "\\u{11f42}", "\\u{1612f}"}],
      [class |-> 10, marks |-> {"\\u05b0"}],
      [class |-> 11, marks |-> {"\\u05b1"}],
      [class |-> 12, marks |-> {"\\u05b2"}],
      [class |-> 13, marks |-> {"\\u05b3"}],
      [class |-> 14, marks |-> {"\\u05b4"}],
      [class |-> 15, marks |-> {"\\u05b5"}],
      [class |-> 16, marks |-> {"\\u05b6"}],
      [class |-> 17, marks |-> {"\\u05b7"}],
      [class |-> 18, marks |-> {"\\u05b8", "\\u05c7"}],
      [class |-> 19, marks |-> {"\\u05b9", "\\u05ba"}],
      [class |-> 20, marks |-> {"\\u05bb"}],
      [class |-> 21, marks |-> {"\\u05bc"}],
      [class |-> 22, marks |-> {"\\u05bd"}],
      [class |-> 23, marks |-> {"\\u05bf"}],
      [class |-> 24, marks |-> {"\\u05c1"}],
      [class |-> 25, marks |-> {"\\u05c2"}],
      [class |-> 26, marks |-> {"\\ufb1e"}],
      [class |-> 27, marks |-> {"\\u064b", "\\u08f0"}],
      [class |-> 28, marks |-> {"\\u064c", "\\u08f1"}],
      [class |-> 29, marks |-> {"\\u064d", "\\u08f2"}],
      [class |-> 30, marks |-> {"\\u0618", "\\u064e"}],
      [class |-> 31, marks |-> {"\\u0619", "\\u064f"}],
      [class |-> 32, marks |-> {"\\u061a", "\\u0650"}],
      [class |-> 33, marks |-> {"\\u0651"}],
      [class |-> 34, marks |-> {"\\u0652"}],
      [class |-> 35, marks |-> {"\\u0670"}],
      [class |-> 36, marks |-> {"\\u0711"}],
      [class |-> 84, marks |-> {"\\u0c55"}],
      [class |-> 91, marks |-> {"\\u0c56"}],
      [class |-> 103, marks |-> {"\\u0e38", "\\u0e39"}],
      [class |-> 107, marks |-> {"\\u0e48", "\\u0e49", "\\u0e4a", "\\u0e4b"}],
      [class |-> 118, marks |-> {"\\u0eb8", "\\u0eb9"}],
      [class |-> 122, marks |-> {"\\u0ec8", "\\u0ec9", "\\u0eca", "\\u0ecb"}],
      [class |-> 129, marks |-> {"\\u0f71"}],
      [class |-> 130, marks |-> {"\\u0f72", "\\u0f7a", "\\u0f7b", "\\u0f7c",
          "\\u0f7d", "\\u0f80"}],
      [class |-> 132, marks |-> {"\\u0f74"}],
      [class |-> 202, marks |-> {"\\u0321", "\\u0322", "\\u0327", "\\u0328",
          "\\u1dd0"}],
      [class |-> 214, marks |-> {"\\u1dce"}],
      [class |-> 216, marks |-> {"\\u031b", "\\u0f39", "\\u{1d165}",
          "\\u{1d166}", "\\u{1d16e}", "\\u{1d16f}", "\\u{1d170}",
          "\\u{1d171}", "\\u{1d172}"}],
      [class |-> 218, marks |-> {"\\u1dfa", "\\u302a"}],
      [class |-> 220, marks |-> {"\\u0316", "\\u0317", "\\u0318", "\\u0319",
          "\\u031c", "\\u031d", "\\u031e", "\\u031f", "\\u0320", "\\u0323",
          "\\u0324", "\\u0325", "\\u0326", "\\u0329", "\\u032a", "\\u032b",
          "\\u032c", "\\u032d", "\\u032e", "\\u032f", "\\u0330", "\\u0331",
          "\\u0332", "\\u0333", "\\u0339", "\\u033a", "\\u033b", "\\u033c",
          "\\u0347", "\\u0348", "\\u0349", "\\u034d", "\\u034e", "\\u0353",
          "\\u0354", "\\u0355", "\\u0356", "\\u0359", "\\u035a", "\\u0591",
          "\\u0596", "\\u059b", "\\u05a2", "\\u05a3", "\\u05a4", "\\u05a5",
          "\\u05a6", "\\u05a7", "\\u05aa", "\\u05c5", "\\u0655", "\\u0656",
          "\\u065c", "\\u065f", "\\u06e3", "\\u06ea", "\\u06ed", "\\u0731",
          "\\u0734", "\\u0737", "\\u0738", "\\u0739", "\\u073b", "\\u073c",
          "\\u073e", "\\u0742", "\\u0744", "\\u0746", "\\u0748", "\\u07f2",
          "\\u07fd", "\\u0859", "\\u085a", "\\u085b", "\\u0899", "\\u089a",
          "\\u089b", "\\u08cf", "\\u08d0", "\\u08d1", "\\u08d2", "\\u08d3",
          "\\u08e3", "\\u08e6", "\\u08e9", "\\u08ed", "\\u08ee", "\\u08ef",
          "\\u08f6", "\\u08f9", "\\u08fa", "\\u0952", "\\u0f18", "\\u0f19",
          "\\u0f35", "\\u0f37", "\\u0fc6", "\\u108d", "\\u193b", "\\u1a18",
          "\\u1a7f", "\\u1ab5", "\\u1ab6", "\\u1ab7", "\\u1ab8", "\\u1ab9",
          "\\u1aba", "\\u1abd", "\\u1abf", "\\u1ac0", "\\u1ac3", "\\u1ac4",
          "\\u1aca", "\\u1add", "\\u1ae6", "\\u1b6c", "\\u1cd5", "\\u1cd6",
          "\\u1cd7", "\\u1cd8", "\\u1cd9", "\\u1cdc", "\\u1cdd", "\\u1cde",
          "\\u1cdf", "\\u1ced", "\\u1dc2", "\\u1dca", "\\u1dcf", "\\u1df9",
          "\\u1dfd", "\\u1dff", "\\u20e8", "\\u20ec", "\\u20ed", "\\u20ee",
          "\\u20ef", "\\ua92b", "\\ua92c", "\\ua92d", "\\uaab4", "\\ufe27",
          "\\ufe28", "\\ufe29", "\\ufe2a", "\\ufe2b", "\\ufe2c", "\\ufe2d",
          "\\u{101fd}", "\\u{102e0}", "\\u{10a0d}", "\\u{10a3a}",
          "\\u{10ae6}", "\\u{10efa}", "\\u{10efb}", "\\u{10efd}",
          "\\u{10efe}", "\\u{10eff}", "\\u{10f46}", "\\u{10f47}",
          "\\u{10f4b}", "\\u{10f4d}", "\\u{10f4e}", "\\u{10f4f}",
          "\\u{10f50}", "\\u{10f83}", "\\u{10f85}", "\\u{1d17b}",
          "\\u{1d17c}", "\\u{1d17d}", "\\u{1d17e}", "\\u{1d17f}",
          "\\u{1d180}", "\\u{1d181}", "\\u{1d182}", "\\u{1d18a}",
          "\\u{1d18b}", "\\u{1e4ee}", "\\u{1e5ef}", "\\u{1e8d0}",
          "\\u{1e8d1}", "\\u{1e8d2}", "\\u{1e8d3}", "\\u{1e8d4}",
          "\\u{1e8d5}", "\\u{1e8d6}"}],
      [class |-> 222, marks |-> {"\\u059a", "\\u05ad", "\\u1939", "\\u302d"}],
      [class |-> 224, marks |-> {"\\u302e", "\\u302f"}],
      [class |-> 226, marks |-> {"\\u{1d16d}"}],
      [class |-> 228, marks |-> {"\\u05ae", "\\u18a9", "\\u1df7", "\\u1df8",
          "\\u302b"}],
      [class |-> 230, marks |-> {"\\u0300", "\\u0301", "\\u0302", "\\u0303",
          "\\u0304", "\\u0305", "\\u0306", "\\u0307", "\\u0308", "\\u0309",
          "\\u030a", "\\u030b", "\\u030c", "\\u030d", "\\u030e", "\\u030f",
          "\\u0310", "\\u0311", "\\u0312", "\\u0313", "\\u0314", "\\u033d",
          "\\u033e", "\\u033f", "\\u0340", "\\u0341", "\\u0342", "\\u0343",
          "\\u0344", "\\u0346", "\\u034a", "\\u034b", "\\u034c", "\\u0350",
          "\\u0351", "\\u0352", "\\u0357", "\\u035b", "\\u0363", "\\u0364",
          "\\u0365", "\\u0366", "\\u0367", "\\u0368", "\\u0369", "\\u036a",
          "\\u036b", "\\u036c", "\\u036d", "\\u036e", "\\u036f", "\\u0483",
          "\\u0484", "\\u0485", "\\u0486", "\\u0487", "\\u0592", "\\u0593",
          "\\u0594", "\\u0595", "\\u0597", "\\u0598", "\\u0599", "\\u059c",
          "\\u059d", "\\u059e", "\\u059f", "\\u05a0", "\\u05a1", "\\u05a8",
          "\\u05a9", "\\u05ab", "\\u05ac", "\\u05af", "\\u05c4", "\\u0610",
          "\\u0611", "\\u0612", "\\u0613", "\\u0614", "\\u0615", "\\u0616",
          "\\u0617", "\\u0653", "\\u0654", "\\u0657", "\\u0658", "\\u0659",
          "\\u065a", "\\u065b", "\\u065d", "\\u065e", "\\u06d6", "\\u06d7",
          "\\u06d8", "\\u06d9", "\\u06da", "\\u06db", "\\u06dc", "\\u06df",
          "\\u06e0", "\\u06e1", "\\u06e2", "\\u06e4", "\\u06e7", "\\u06e8",
          "\\u06eb", "\\u06ec", "\\u0730", "\\u0732", "\\u0733", "\\u0735",
          "\\u0736", "\\u073a", "\\u073d", "\\u073f", "\\u0740", "\\u0741",
          "\\u0743", "\\u0745", "\\u0747", "\\u0749", "\\u074a", "\\u07eb",
          "\\u07ec", "\\u07ed", "\\u07ee", "\\u07ef", "\\u07f0", "\\u07f1",
          "\\u07f3", "\\u0816", "\\u0817", "\\u0818", "\\u0819", "\\u081b",
          "\\u081c", "\\u081d", "\\u081e", "\\u081f", "\\u0820", "\\u0821",
          "\\u0822", "\\u0823", "\\u0825", "\\u0826", "\\u0827", "\\u0829",
          "\\u082a", "\\u082b", "\\u082c", "\\u082d", "\\u0897", "\\u0898",
          "\\u089c", "\\u089d", "\\u089e", "\\u089f", "\\u08ca", "\\u08cb",
          "\\u08cc", "\\u08cd", "\\u08ce", "\\u08d4", "\\u08d5", "\\u08d6",
          "\\u08d7", "\\u08d8", "\\u08d9", "\\u08da", "\\u08db", "\\u08dc",
          "\\u08dd", "\\u08de", "\\u08df", "\\u08e0", "\\u08e1", "\\u08e4",
          "\\u08e5", "\\u08e7", "\\u08e8", "\\u08ea", "\\u08eb", "\\u08ec",
          "\\u08f3", "\\u08f4", "\\u08f5", "\\u08f7", "\\u08f8", "\\u08fb",
          "\\u08fc", "\\u08fd", "\\u08fe", "\\u08ff", "\\u0951", "\\u0953",
          "\\u0954", "\\u09fe", "\\u0f82", "\\u0f83", "\\u0f86", "\\u0f87",
          "\\u135d", "\\u135e", "\\u135f", "\\u17dd", "\\u193a", "\\u1a17",
          "\\u1a75", "\\u1a76", "\\u1a77", "\\u1a78", "\\u1a79", "\\u1a7a",
          "\\u1a7b", "\\u1a7c", "\\u1ab0", "\\u1ab1", "\\u1ab2", "\\u1ab3",
          "\\u1ab4", "\\u1abb", "\\u1abc", "\\u1ac1", "\\u1ac2", "\\u1ac5",
          "\\u1ac6", "\\u1ac7", "\\u1ac8", "\\u1ac9", "\\u1acb", "\\u1acc",
          "\\u1acd", "\\u1ace", "\\u1acf", "\\u1ad0", "\\u1ad1", "\\u1ad2",
          "\\u1ad3", "\\u1ad4", "\\u1ad5", "\\u1ad6", "\\u1ad7", "\\u1ad8",
          "\\u1ad9", "\\u1ada", "\\u1adb", "\\u1adc", "\\u1ae0", "\\u1ae1",
          "\\u1ae2", "\\u1ae3", "\\u1ae4", "\\u1ae5", "\\u1ae7", "\\u1ae8",
          "\\u1ae9", "\\u1aea", "\\u1b6b", "\\u1b6d", "\\u1b6e", "\\u1b6f",
          "\\u1b70", "\\u1b71", "\\u1b72", "\\u1b73", "\\u1cd0", "\\u1cd1",
          "\\u1cd2", "\\u1cda", "\\u1cdb", "\\u1ce0", "\\u1cf4", "\\u1cf8",
          "\\u1cf9", "\\u1dc0", "\\u1dc1", "\\u1dc3", "\\u1dc4", "\\u1dc5",
          "\\u1dc6", "\\u1dc7", "\\u1dc8", "\\u1dc9", "\\u1dcb", "\\u1dcc",
          "\\u1dd1", "\\u1dd2", "\\u1dd3", "\\u1dd4", "\\u1dd5", "\\u1dd6",
          "\\u1dd7", "\\u1dd8", "\\u1dd9", "\\u1dda", "\\u1ddb", "\\u1ddc",
          "\\u1ddd", "\\u1dde", "\\u1ddf", "\\u1de0", "\\u1de1", "\\u1de2",
          "\\u1de3", "\\u1de4", "\\u1de5", "\\u1de6", "\\u1de7", "\\u1de8",
          "\\u1de9", "\\u1dea", "\\u1deb", "\\u1dec", "\\u1ded", "\\u1dee",
          "\\u1def", "\\u1df0", "\\u1df1", "\\u1df2", "\\u1df3", "\\u1df4",
          "\\u1df5", "\\u1dfb", "\\u1dfe", "\\u20d0", "\\u20d1", "\\u20d4",
          "\\u20d5", "\\u20d6", "\\u20d7", "\\u20db", "\\u20dc", "\\u20e1",
          "\\u20e7", "\\u20e9", "\\u20f0", "\\u2cef", "\\u2cf0", "\\u2cf1",
          "\\u2de0", "\\u2de1", "\\u2de2", "\\u2de3", "\\u2de4", "\\u2de5",
          "\\u2de6", "\\u2de7", "\\u2de8", "\\u2de9", "\\u2dea", "\\u2deb",
          "\\u2dec", "\\u2ded", "\\u2dee", "\\u2def", "\\u2df0", "\\u2df1",
          "\\u2df2", "\\u2df3", "\\u2df4", "\\u2df5", "\\u2df6", "\\u2df7",
          "\\u2df8", "\\u2df9", "\\u2dfa", "\\u2dfb", "\\u2dfc", "\\u2dfd",
          "\\u2dfe", "\\u2dff", "\\ua66f", "\\ua674", "\\ua675", "\\ua676",
          "\\ua677", "\\ua678", "\\ua679", "\\ua67a", "\\ua67b", "\\ua67c",
          "\\ua67d", "\\ua69e", "\\ua69f", "\\ua6f0", "\\ua6f1", "\\ua8e0",
          "\\ua8e1", "\\ua8e2", "\\ua8e3", "\\ua8e4", "\\ua8e5", "\\ua8e6",
          "\\ua8e7", "\\ua8e8", "\\ua8e9", "\\ua8ea", "\\ua8eb", "\\ua8ec",
          "\\ua8ed", "\\ua8ee", "\\ua8ef", "\\ua8f0", "\\ua8f1", "\\uaab0",
          "\\uaab2", "\\uaab3", "\\uaab7", "\\uaab8", "\\uaabe", "\\uaabf",
          "\\uaac1", "\\ufe20", "\\ufe21", "\\ufe22", "\\ufe23", "\\ufe24",
          "\\ufe25", "\\ufe26", "\\ufe2e", "\\ufe2f", "\\u{10376}",
          "\\u{10377}", "\\u{10378}", "\\u{10379}", "\\u{1037a}",
          "\\u{10a0f}", "\\u{10a38}", "\\u{10ae5}", "\\u{10d24}",
          "\\u{10d25}", "\\u{10d26}", "\\u{10d27}", "\\u{10d69}",
          "\\u{10d6a}", "\\u{10d6b}", "\\u{10d6c}", "\\u{10d6d}",
          "\\u{10eab}", "\\u{10eac}", "\\u{10f48}", "\\u{10f49}",
          "\\u{10f4a}", "\\u{10f4c}", "\\u{10f82}", "\\u{10f84}",
          "\\u{11100}", "\\u{11101}", "\\u{11102}", "\\u{11366}",
          "\\u{11367}", "\\u{11368}", "\\u{11369}", "\\u{1136a}",
          "\\u{1136b}", "\\u{1136c}", "\\u{11370}", "\\u{11371}",
          "\\u{11372}", "\\u{11373}", "\\u{11374}", "\\u{1145e}",
          "\\u{16b30}", "\\u{16b31}", "\\u{16b32}", "\\u{16b33}",
          "\\u{16b34}", "\\u{16b35}", "\\u{16b36}", "\\u{1d185}",
          "\\u{1d186}", "\\u{1d187}", "\\u{1d188}", "\\u{1d189}",
          "\\u{1d1aa}", "\\u{1d1ab}", "\\u{1d1ac}", "\\u{1d1ad}",
          "\\u{1d242}", "\\u{1d243}", "\\u{1d244}", "\\u{1e000}",
          "\\u{1e001}", "\\u{1e002}", "\\u{1e003}", "\\u{1e004}",
          "\\u{1e005}", "\\u{1e006}", "\\u{1e008}", "\\u{1e009}",
          "\\u{1e00a}", "\\u{1e00b}", "\\u{1e00c}", "\\u{1e00d}",
          "\\u{1e00e}", "\\u{1e00f}", "\\u{1e010}", "\\u{1e011}",
          "\\u{1e012}", "\\u{1e013}", "\\u{1e014}", "\\u{1e015}",
          "\\u{1e016}", "\\u{1e017}", "\\u{1e018}", "\\u{1e01b}",
          "\\u{1e01c}", "\\u{1e01d}", "\\u{1e01e}", "\\u{1e01f}",
          "\\u{1e020}", "\\u{1e021}", "\\u{1e023}", "\\u{1e024}",
          "\\u{1e026}", "\\u{1e027}", "\\u{1e028}", "\\u{1e029}",
          "\\u{1e02a}", "\\u{1e08f}", "\\u{1e130}", "\\u{1e131}",
          "\\u{1e132}", "\\u{1e133}", "\\u{1e134}", "\\u{1e135}",
          "\\u{1e136}", "\\u{1e2ae}", "\\u{1e2ec}", "\\u{1e2ed}",
          "\\u{1e2ee}", "\\u{1e2ef}", "\\u{1e4ef}", "\\u{1e5ee}",
          "\\u{1e6e3}", "\\u{1e6e6}", "\\u{1e6ee}", "\\u{1e6ef}",
          "\\u{1e6f5}", "\\u{1e944}", "\\u{1e945}", "\\u{1e946}",
          "\\u{1e947}", "\\u{1e948}", "\\u{1e949}"}],
      [class |-> 232, marks |-> {"\\u0315", "\\u031a", "\\u0358", "\\u1df6",
          "\\u302c", "\\u{1e4ec}", "\\u{1e4ed}"}],
      [class |-> 233, marks |-> {"\\u035c", "\\u035f", "\\u0362", "\\u1dfc"}],
      [class |-> 234, marks |-> {"\\u035d", "\\u035e", "\\u0360", "\\u0361",
          "\\u1aeb", "\\u1dcd"}],
      [class |-> 240, marks |-> {"\\u0345"}] >>

\* The canonical combining class of a character: 0 for a character the
\* table does not have.
CombiningClass(ch) ==
    IF ~IsEscape(ch) THEN 0
    ELSE LET rows == SelectSeq(CombiningClasses, LAMBDA row : ch \in row.marks)
         IN  IF Len(rows) = 0 THEN 0 ELSE rows[1].class

\* The full canonical decomposition of every character that has one, the
\* Hangul syllables apart (Unicode 17): the i-th character of `from`
\* decomposes into the i-th character of `to` followed by `rest`.
Decompositions ==
    <<[from |-> <<"\\u0340", "\\u0341", "\\u0343", "\\u0374", "\\u037e",
                 "\\u0387", "\\u1fbe", "\\u1fef", "\\u1ffd", "\\u2000",
                 "\\u2001", "\\u2126", "\\u212a", "\\u2329", "\\u232a",
                 "\\uf900", "\\uf901", "\\uf902", "\\uf903", "\\uf904",
                 "\\uf905", "\\uf906", "\\uf907", "\\uf908", "\\uf909",
                 "\\uf90a", "\\uf90b", "\\uf90c", "\\uf90d", "\\uf90e",
                 "\\uf90f", "\\uf910", "\\uf911", "\\uf912", "\\uf913",
                 "\\uf914", "\\uf915", "\\uf916", "\\uf917", "\\uf918",
                 "\\uf919", "\\uf91a", "\\uf91b", "\\uf91c", "\\uf91d",
                 "\\uf91e", "\\uf91f", "\\uf920", "\\uf921", "\\uf922",
                 "\\uf923", "\\uf924", "\\uf925", "\\uf926", "\\uf927",
                 "\\uf928", "\\uf929", "\\uf92a", "\\uf92b", "\\uf92c",
                 "\\uf92d", "\\uf92e", "\\uf92f", "\\uf930", "\\uf931",
                 "\\uf932", "\\uf933", "\\uf934", "\\uf935", "\\uf936",
                 "\\uf937", "\\uf938", "\\uf939", "\\uf93a", "\\uf93b",
                 "\\uf93c", "\\uf93d", "\\uf93e", "\\uf93f", "\\uf940",
                 "\\uf941", "\\uf942", "\\uf943", "\\uf944", "\\uf945",
                 "\\uf946", "\\uf947", "\\uf948", "\\uf949", "\\uf94a",
                 "\\uf94b", "\\uf94c", "\\uf94d", "\\uf94e", "\\uf94f",
                 "\\uf950", "\\uf951", "\\uf952", "\\uf953", "\\uf954",
                 "\\uf955", "\\uf956", "\\uf957", "\\uf958", "\\uf959",
                 "\\uf95a", "\\uf95b", "\\uf95c", "\\uf95d", "\\uf95e",
                 "\\uf95f", "\\uf960", "\\uf961", "\\uf962", "\\uf963",
                 "\\uf964", "\\uf965", "\\uf966", "\\uf967", "\\uf968",
                 "\\uf969", "\\uf96a", "\\uf96b", "\\uf96c", "\\uf96d",
                 "\\uf96e", "\\uf96f", "\\uf970", "\\uf971", "\\uf972",
                 "\\uf973", "\\uf974", "\\uf975", "\\uf976", "\\uf977",
                 "\\uf978", "\\uf979", "\\uf97a", "\\uf97b", "\\uf97c",
                 "\\uf97d", "\\uf97e", "\\uf97f", "\\uf980", "\\uf981",
                 "\\uf982", "\\uf983", "\\uf984", "\\uf985", "\\uf986",
                 "\\uf987", "\\uf988", "\\uf989", "\\uf98a", "\\uf98b",
                 "\\uf98c", "\\uf98d", "\\uf98e", "\\uf98f", "\\uf990",
                 "\\uf991", "\\uf992", "\\uf993", "\\uf994", "\\uf995",
                 "\\uf996", "\\uf997", "\\uf998", "\\uf999", "\\uf99a",
                 "\\uf99b", "\\uf99c", "\\uf99d", "\\uf99e", "\\uf99f",
                 "\\uf9a0", "\\uf9a1", "\\uf9a2", "\\uf9a3", "\\uf9a4",
                 "\\uf9a5", "\\uf9a6", "\\uf9a7", "\\uf9a8", "\\uf9a9",
                 "\\uf9aa", "\\uf9ab", "\\uf9ac", "\\uf9ad", "\\uf9ae",
                 "\\uf9af", "\\uf9b0", "\\uf9b1", "\\uf9b2", "\\uf9b3",
                 "\\uf9b4", "\\uf9b5", "\\uf9b6", "\\uf9b7", "\\uf9b8",
                 "\\uf9b9", "\\uf9ba", "\\uf9bb", "\\uf9bc", "\\uf9bd",
                 "\\uf9be", "\\uf9bf", "\\uf9c0", "\\uf9c1", "\\uf9c2",
                 "\\uf9c3", "\\uf9c4", "\\uf9c5", "\\uf9c6", "\\uf9c7",
                 "\\uf9c8", "\\uf9c9", "\\uf9ca", "\\uf9cb", "\\uf9cc",
                 "\\uf9cd", "\\uf9ce", "\\uf9cf", "\\uf9d0", "\\uf9d1",
                 "\\uf9d2", "\\uf9d3", "\\uf9d4", "\\uf9d5", "\\uf9d6",
                 "\\uf9d7", "\\uf9d8", "\\uf9d9", "\\uf9da", "\\uf9db",
                 "\\uf9dc", "\\uf9dd", "\\uf9de", "\\uf9df", "\\uf9e0",
                 "\\uf9e1", "\\uf9e2", "\\uf9e3", "\\uf9e4", "\\uf9e5",
                 "\\uf9e6", "\\uf9e7", "\\uf9e8", "\\uf9e9", "\\uf9ea",
                 "\\uf9eb", "\\uf9ec", "\\uf9ed", "\\uf9ee", "\\uf9ef",
                 "\\uf9f0", "\\uf9f1", "\\uf9f2", "\\uf9f3", "\\uf9f4",
                 "\\uf9f5", "\\uf9f6", "\\uf9f7", "\\uf9f8", "\\uf9f9",
                 "\\uf9fa", "\\uf9fb", "\\uf9fc", "\\uf9fd", "\\uf9fe",
                 "\\uf9ff", "\\ufa00", "\\ufa01", "\\ufa02", "\\ufa03",
                 "\\ufa04", "\\ufa05", "\\ufa06", "\\ufa07", "\\ufa08",
                 "\\ufa09", "\\ufa0a", "\\ufa0b", "\\ufa0c", "\\ufa0d",
                 "\\ufa10", "\\ufa12", "\\ufa15", "\\ufa16", "\\ufa17",
                 "\\ufa18", "\\ufa19", "\\ufa1a", "\\ufa1b", "\\ufa1c",
                 "\\ufa1d", "\\ufa1e", "\\ufa20", "\\ufa22", "\\ufa25",
                 "\\ufa26", "\\ufa2a", "\\ufa2b", "\\ufa2c", "\\ufa2d",
                 "\\ufa2e", "\\ufa2f", "\\ufa30", "\\ufa31", "\\ufa32",
                 "\\ufa33", "\\ufa34", "\\ufa35", "\\ufa36", "\\ufa37",
                 "\\ufa38", "\\ufa39", "\\ufa3a", "\\ufa3b", "\\ufa3c",
                 "\\ufa3d", "\\ufa3e", "\\ufa3f", "\\ufa40", "\\ufa41",
                 "\\ufa42", "\\ufa43", "\\ufa44", "\\ufa45", "\\ufa46",
                 "\\ufa47", "\\ufa48", "\\ufa49", "\\ufa4a", "\\ufa4b",
                 "\\ufa4c", "\\ufa4d", "\\ufa4e", "\\ufa4f", "\\ufa50",
                 "\\ufa51", "\\ufa52", "\\ufa53", "\\ufa54", "\\ufa55",
                 "\\ufa56", "\\ufa57", "\\ufa58", "\\ufa59", "\\ufa5a",
                 "\\ufa5b", "\\ufa5c", "\\ufa5d", "\\ufa5e", "\\ufa5f",
                 "\\ufa60", "\\ufa61", "\\ufa62", "\\ufa63", "\\ufa64",
                 "\\ufa65", "\\ufa66", "\\ufa67", "\\ufa68", "\\ufa69",
                 "\\ufa6a", "\\ufa6b", "\\ufa6c", "\\ufa6d", "\\ufa70",
                 "\\ufa71", "\\ufa72", "\\ufa73", "\\ufa74", "\\ufa75",
                 "\\ufa76", "\\ufa77", "\\ufa78", "\\ufa79", "\\ufa7a",
                 "\\ufa7b", "\\ufa7c", "\\ufa7d", "\\ufa7e", "\\ufa7f",
                 "\\ufa80", "\\ufa81", "\\ufa82", "\\ufa83", "\\ufa84",
                 "\\ufa85", "\\ufa86", "\\ufa87", "\\ufa88", "\\ufa89",
                 "\\ufa8a", "\\ufa8b", "\\ufa8c", "\\ufa8d", "\\ufa8e",
                 "\\ufa8f", "\\ufa90", "\\ufa91", "\\ufa92", "\\ufa93",
                 "\\ufa94", "\\ufa95", "\\ufa96", "\\ufa97", "\\ufa98",
                 "\\ufa99", "\\ufa9a", "\\ufa9b", "\\ufa9c", "\\ufa9d",
                 "\\ufa9e", "\\ufa9f", "\\ufaa0", "\\ufaa1", "\\ufaa2",
                 "\\ufaa3", "\\ufaa4", "\\ufaa5", "\\ufaa6", "\\ufaa7",
                 "\\ufaa8", "\\ufaa9", "\\ufaaa", "\\ufaab", "\\ufaac",
                 "\\ufaad", "\\ufaae", "\\ufaaf", "\\ufab0", "\\ufab1",
                 "\\ufab2", "\\ufab3", "\\ufab4", "\\ufab5", "\\ufab6",
                 "\\ufab7", "\\ufab8", "\\ufab9", "\\ufaba", "\\ufabb",
                 "\\ufabc", "\\ufabd", "\\ufabe", "\\ufabf", "\\ufac0",
                 "\\ufac1", "\\ufac2", "\\ufac3", "\\ufac4", "\\ufac5",
                 "\\ufac6", "\\ufac7", "\\ufac8", "\\ufac9", "\\ufaca",
                 "\\ufacb", "\\ufacc", "\\ufacd", "\\uface", "\\ufacf",
                 "\\ufad0", "\\ufad1", "\\ufad2", "\\ufad3", "\\ufad4",
                 "\\ufad5", "\\ufad6", "\\ufad7", "\\ufad8", "\\ufad9",
                 "\\u{2f800}", "\\u{2f801}", "\\u{2f802}", "\\u{2f803}",
                 "\\u{2f804}", "\\u{2f805}", "\\u{2f806}", "\\u{2f807}",
                 "\\u{2f808}", "\\u{2f809}", "\\u{2f80a}", "\\u{2f80b}",
                 "\\u{2f80c}", "\\u{2f80d}", "\\u{2f80e}", "\\u{2f80f}",
                 "\\u{2f810}", "\\u{2f811}", "\\u{2f812}", "\\u{2f813}",
                 "\\u{2f814}", "\\u{2f815}", "\\u{2f816}", "\\u{2f817}",
                 "\\u{2f818}", "\\u{2f819}", "\\u{2f81a}", "\\u{2f81b}",
                 "\\u{2f81c}", "\\u{2f81d}", "\\u{2f81e}", "\\u{2f81f}",
                 "\\u{2f820}", "\\u{2f821}", "\\u{2f822}", "\\u{2f823}",
                 "\\u{2f824}", "\\u{2f825}", "\\u{2f826}", "\\u{2f827}",
                 "\\u{2f828}", "\\u{2f829}", "\\u{2f82a}", "\\u{2f82b}",
                 "\\u{2f82c}", "\\u{2f82d}", "\\u{2f82e}", "\\u{2f82f}",
                 "\\u{2f830}", "\\u{2f831}", "\\u{2f832}", "\\u{2f833}",
                 "\\u{2f834}", "\\u{2f835}", "\\u{2f836}", "\\u{2f837}",
                 "\\u{2f838}", "\\u{2f839}", "\\u{2f83a}", "\\u{2f83b}",
                 "\\u{2f83c}", "\\u{2f83d}", "\\u{2f83e}", "\\u{2f83f}",
                 "\\u{2f840}", "\\u{2f841}", "\\u{2f842}", "\\u{2f843}",
                 "\\u{2f844}", "\\u{2f845}", "\\u{2f846}", "\\u{2f847}",
                 "\\u{2f848}", "\\u{2f849}", "\\u{2f84a}", "\\u{2f84b}",
                 "\\u{2f84c}", "\\u{2f84d}", "\\u{2f84e}", "\\u{2f84f}",
                 "\\u{2f850}", "\\u{2f851}", "\\u{2f852}", "\\u{2f853}",
                 "\\u{2f854}", "\\u{2f855}", "\\u{2f856}", "\\u{2f857}",
                 "\\u{2f858}", "\\u{2f859}", "\\u{2f85a}", "\\u{2f85b}",
                 "\\u{2f85c}", "\\u{2f85d}", "\\u{2f85e}", "\\u{2f85f}",
                 "\\u{2f860}", "\\u{2f861}", "\\u{2f862}", "\\u{2f863}",
                 "\\u{2f864}", "\\u{2f865}", "\\u{2f866}", "\\u{2f867}",
                 "\\u{2f868}", "\\u{2f869}", "\\u{2f86a}", "\\u{2f86b}",
                 "\\u{2f86c}", "\\u{2f86d}", "\\u{2f86e}", "\\u{2f86f}",
                 "\\u{2f870}", "\\u{2f871}", "\\u{2f872}", "\\u{2f873}",
                 "\\u{2f874}", "\\u{2f875}", "\\u{2f876}", "\\u{2f877}",
                 "\\u{2f878}", "\\u{2f879}", "\\u{2f87a}", "\\u{2f87b}",
                 "\\u{2f87c}", "\\u{2f87d}", "\\u{2f87e}", "\\u{2f87f}",
                 "\\u{2f880}", "\\u{2f881}", "\\u{2f882}", "\\u{2f883}",
                 "\\u{2f884}", "\\u{2f885}", "\\u{2f886}", "\\u{2f887}",
                 "\\u{2f888}", "\\u{2f889}", "\\u{2f88a}", "\\u{2f88b}",
                 "\\u{2f88c}", "\\u{2f88d}", "\\u{2f88e}", "\\u{2f88f}",
                 "\\u{2f890}", "\\u{2f891}", "\\u{2f892}", "\\u{2f893}",
                 "\\u{2f894}", "\\u{2f895}", "\\u{2f896}", "\\u{2f897}",
                 "\\u{2f898}", "\\u{2f899}", "\\u{2f89a}", "\\u{2f89b}",
                 "\\u{2f89c}", "\\u{2f89d}", "\\u{2f89e}", "\\u{2f89f}",
                 "\\u{2f8a0}", "\\u{2f8a1}", "\\u{2f8a2}", "\\u{2f8a3}",
                 "\\u{2f8a4}", "\\u{2f8a5}", "\\u{2f8a6}", "\\u{2f8a7}",
                 "\\u{2f8a8}", "\\u{2f8a9}", "\\u{2f8aa}", "\\u{2f8ab}",
                 "\\u{2f8ac}", "\\u{2f8ad}", "\\u{2f8ae}", "\\u{2f8af}",
                 "\\u{2f8b0}", "\\u{2f8b1}", "\\u{2f8b2}", "\\u{2f8b3}",
                 "\\u{2f8b4}", "\\u{2f8b5}", "\\u{2f8b6}", "\\u{2f8b7}",
                 "\\u{2f8b8}", "\\u{2f8b9}", "\\u{2f8ba}", "\\u{2f8bb}",
                 "\\u{2f8bc}", "\\u{2f8bd}", "\\u{2f8be}", "\\u{2f8bf}",
                 "\\u{2f8c0}", "\\u{2f8c1}", "\\u{2f8c2}", "\\u{2f8c3}",
                 "\\u{2f8c4}", "\\u{2f8c5}", "\\u{2f8c6}", "\\u{2f8c7}",
                 "\\u{2f8c8}", "\\u{2f8c9}", "\\u{2f8ca}", "\\u{2f8cb}",
                 "\\u{2f8cc}", "\\u{2f8cd}", "\\u{2f8ce}", "\\u{2f8cf}",
                 "\\u{2f8d0}", "\\u{2f8d1}", "\\u{2f8d2}", "\\u{2f8d3}",
                 "\\u{2f8d4}", "\\u{2f8d5}", "\\u{2f8d6}", "\\u{2f8d7}",
                 "\\u{2f8d8}", "\\u{2f8d9}", "\\u{2f8da}", "\\u{2f8db}",
                 "\\u{2f8dc}", "\\u{2f8dd}", "\\u{2f8de}", "\\u{2f8df}",
                 "\\u{2f8e0}", "\\u{2f8e1}", "\\u{2f8e2}", "\\u{2f8e3}",
                 "\\u{2f8e4}", "\\u{2f8e5}", "\\u{2f8e6}", "\\u{2f8e7}",
                 "\\u{2f8e8}", "\\u{2f8e9}", "\\u{2f8ea}", "\\u{2f8eb}",
                 "\\u{2f8ec}", "\\u{2f8ed}", "\\u{2f8ee}", "\\u{2f8ef}",
                 "\\u{2f8f0}", "\\u{2f8f1}", "\\u{2f8f2}", "\\u{2f8f3}",
                 "\\u{2f8f4}", "\\u{2f8f5}", "\\u{2f8f6}", "\\u{2f8f7}",
                 "\\u{2f8f8}", "\\u{2f8f9}", "\\u{2f8fa}", "\\u{2f8fb}",
                 "\\u{2f8fc}", "\\u{2f8fd}", "\\u{2f8fe}", "\\u{2f8ff}",
                 "\\u{2f900}", "\\u{2f901}", "\\u{2f902}", "\\u{2f903}",
                 "\\u{2f904}", "\\u{2f905}", "\\u{2f906}", "\\u{2f907}",
                 "\\u{2f908}", "\\u{2f909}", "\\u{2f90a}", "\\u{2f90b}",
                 "\\u{2f90c}", "\\u{2f90d}", "\\u{2f90e}", "\\u{2f90f}",
                 "\\u{2f910}", "\\u{2f911}", "\\u{2f912}", "\\u{2f913}",
                 "\\u{2f914}", "\\u{2f915}", "\\u{2f916}", "\\u{2f917}",
                 "\\u{2f918}", "\\u{2f919}", "\\u{2f91a}", "\\u{2f91b}",
                 "\\u{2f91c}", "\\u{2f91d}", "\\u{2f91e}", "\\u{2f91f}",
                 "\\u{2f920}", "\\u{2f921}", "\\u{2f922}", "\\u{2f923}",
                 "\\u{2f924}", "\\u{2f925}", "\\u{2f926}", "\\u{2f927}",
                 "\\u{2f928}", "\\u{2f929}", "\\u{2f92a}", "\\u{2f92b}",
                 "\\u{2f92c}", "\\u{2f92d}", "\\u{2f92e}", "\\u{2f92f}",
                 "\\u{2f930}", "\\u{2f931}", "\\u{2f932}", "\\u{2f933}",
                 "\\u{2f934}", "\\u{2f935}", "\\u{2f936}", "\\u{2f937}",
                 "\\u{2f938}", "\\u{2f939}", "\\u{2f93a}", "\\u{2f93b}",
                 "\\u{2f93c}", "\\u{2f93d}", "\\u{2f93e}", "\\u{2f93f}",
                 "\\u{2f940}", "\\u{2f941}", "\\u{2f942}", "\\u{2f943}",
                 "\\u{2f944}", "\\u{2f945}", "\\u{2f946}", "\\u{2f947}",
                 "\\u{2f948}", "\\u{2f949}", "\\u{2f94a}", "\\u{2f94b}",
                 "\\u{2f94c}", "\\u{2f94d}", "\\u{2f94e}", "\\u{2f94f}",
                 "\\u{2f950}", "\\u{2f951}", "\\u{2f952}", "\\u{2f953}",
                 "\\u{2f954}", "\\u{2f955}", "\\u{2f956}", "\\u{2f957}",
                 "\\u{2f958}", "\\u{2f959}", "\\u{2f95a}", "\\u{2f95b}",
                 "\\u{2f95c}", "\\u{2f95d}", "\\u{2f95e}", "\\u{2f95f}",
                 "\\u{2f960}", "\\u{2f961}", "\\u{2f962}", "\\u{2f963}",
                 "\\u{2f964}", "\\u{2f965}", "\\u{2f966}", "\\u{2f967}",
                 "\\u{2f968}", "\\u{2f969}", "\\u{2f96a}", "\\u{2f96b}",
                 "\\u{2f96c}", "\\u{2f96d}", "\\u{2f96e}", "\\u{2f96f}",
                 "\\u{2f970}", "\\u{2f971}", "\\u{2f972}", "\\u{2f973}",
                 "\\u{2f974}", "\\u{2f975}", "\\u{2f976}", "\\u{2f977}",
                 "\\u{2f978}", "\\u{2f979}", "\\u{2f97a}", "\\u{2f97b}",
                 "\\u{2f97c}", "\\u{2f97d}", "\\u{2f97e}", "\\u{2f97f}",
                 "\\u{2f980}", "\\u{2f981}", "\\u{2f982}", "\\u{2f983}",
                 "\\u{2f984}", "\\u{2f985}", "\\u{2f986}", "\\u{2f987}",
                 "\\u{2f988}", "\\u{2f989}", "\\u{2f98a}", "\\u{2f98b}",
                 "\\u{2f98c}", "\\u{2f98d}", "\\u{2f98e}", "\\u{2f98f}",
                 "\\u{2f990}", "\\u{2f991}", "\\u{2f992}", "\\u{2f993}",
                 "\\u{2f994}", "\\u{2f995}", "\\u{2f996}", "\\u{2f997}",
                 "\\u{2f998}", "\\u{2f999}", "\\u{2f99a}", "\\u{2f99b}",
                 "\\u{2f99c}", "\\u{2f99d}", "\\u{2f99e}", "\\u{2f99f}",
                 "\\u{2f9a0}", "\\u{2f9a1}", "\\u{2f9a2}", "\\u{2f9a3}",
                 "\\u{2f9a4}", "\\u{2f9a5}", "\\u{2f9a6}", "\\u{2f9a7}",
                 "\\u{2f9a8}", "\\u{2f9a9}", "\\u{2f9aa}", "\\u{2f9ab}",
                 "\\u{2f9ac}", "\\u{2f9ad}", "\\u{2f9ae}", "\\u{2f9af}",
                 "\\u{2f9b0}", "\\u{2f9b1}", "\\u{2f9b2}", "\\u{2f9b3}",
                 "\\u{2f9b4}", "\\u{2f9b5}", "\\u{2f9b6}", "\\u{2f9b7}",
                 "\\u{2f9b8}", "\\u{2f9b9}", "\\u{2f9ba}", "\\u{2f9bb}",
                 "\\u{2f9bc}", "\\u{2f9bd}", "\\u{2f9be}", "\\u{2f9bf}",
                 "\\u{2f9c0}", "\\u{2f9c1}", "\\u{2f9c2}", "\\u{2f9c3}",
                 "\\u{2f9c4}", "\\u{2f9c5}", "\\u{2f9c6}", "\\u{2f9c7}",
                 "\\u{2f9c8}", "\\u{2f9c9}", "\\u{2f9ca}", "\\u{2f9cb}",
                 "\\u{2f9cc}", "\\u{2f9cd}", "\\u{2f9ce}", "\\u{2f9cf}",
                 "\\u{2f9d0}", "\\u{2f9d1}", "\\u{2f9d2}", "\\u{2f9d3}",
                 "\\u{2f9d4}", "\\u{2f9d5}", "\\u{2f9d6}", "\\u{2f9d7}",
                 "\\u{2f9d8}", "\\u{2f9d9}", "\\u{2f9da}", "\\u{2f9db}",
                 "\\u{2f9dc}", "\\u{2f9dd}", "\\u{2f9de}", "\\u{2f9df}",
                 "\\u{2f9e0}", "\\u{2f9e1}", "\\u{2f9e2}", "\\u{2f9e3}",
                 "\\u{2f9e4}", "\\u{2f9e5}", "\\u{2f9e6}", "\\u{2f9e7}",
                 "\\u{2f9e8}", "\\u{2f9e9}", "\\u{2f9ea}", "\\u{2f9eb}",
                 "\\u{2f9ec}", "\\u{2f9ed}", "\\u{2f9ee}", "\\u{2f9ef}",
                 "\\u{2f9f0}", "\\u{2f9f1}", "\\u{2f9f2}", "\\u{2f9f3}",
                 "\\u{2f9f4}", "\\u{2f9f5}", "\\u{2f9f6}", "\\u{2f9f7}",
                 "\\u{2f9f8}", "\\u{2f9f9}", "\\u{2f9fa}", "\\u{2f9fb}",
                 "\\u{2f9fc}", "\\u{2f9fd}", "\\u{2f9fe}", "\\u{2f9ff}",
                 "\\u{2fa00}", "\\u{2fa01}", "\\u{2fa02}", "\\u{2fa03}",
                 "\\u{2fa04}", "\\u{2fa05}", "\\u{2fa06}", "\\u{2fa07}",
                 "\\u{2fa08}", "\\u{2fa09}", "\\u{2fa0a}", "\\u{2fa0b}",
                 "\\u{2fa0c}", "\\u{2fa0d}", "\\u{2fa0e}", "\\u{2fa0f}",
                 "\\u{2fa10}", "\\u{2fa11}", "\\u{2fa12}", "\\u{2fa13}",
                 "\\u{2fa14}", "\\u{2fa15}", "\\u{2fa16}", "\\u{2fa17}",
                 "\\u{2fa18}", "\\u{2fa19}", "\\u{2fa1a}", "\\u{2fa1b}",
                 "\\u{2fa1c}", "\\u{2fa1d}">>,
       to |-> <<"\\u0300", "\\u0301", "\\u0313", "\\u02b9", ";", "\\u00b7",
               "\\u03b9", "\\u0060", "\\u00b4", "\\u2002", "\\u2003",
               "\\u03a9", "K", "\\u3008", "\\u3009", "\\u8c48", "\\u66f4",
               "\\u8eca", "\\u8cc8", "\\u6ed1", "\\u4e32", "\\u53e5",
               "\\u9f9c", "\\u9f9c", "\\u5951", "\\u91d1", "\\u5587",
               "\\u5948", "\\u61f6", "\\u7669", "\\u7f85", "\\u863f",
               "\\u87ba", "\\u88f8", "\\u908f", "\\u6a02", "\\u6d1b",
               "\\u70d9", "\\u73de", "\\u843d", "\\u916a", "\\u99f1",
               "\\u4e82", "\\u5375", "\\u6b04", "\\u721b", "\\u862d",
               "\\u9e1e", "\\u5d50", "\\u6feb", "\\u85cd", "\\u8964",
               "\\u62c9", "\\u81d8", "\\u881f", "\\u5eca", "\\u6717",
               "\\u6d6a", "\\u72fc", "\\u90ce", "\\u4f86", "\\u51b7",
               "\\u52de", "\\u64c4", "\\u6ad3", "\\u7210", "\\u76e7",
               "\\u8001", "\\u8606", "\\u865c", "\\u8def", "\\u9732",
               "\\u9b6f", "\\u9dfa", "\\u788c", "\\u797f", "\\u7da0",
               "\\u83c9", "\\u9304", "\\u9e7f", "\\u8ad6", "\\u58df",
               "\\u5f04", "\\u7c60", "\\u807e", "\\u7262", "\\u78ca",
               "\\u8cc2", "\\u96f7", "\\u58d8", "\\u5c62", "\\u6a13",
               "\\u6dda", "\\u6f0f", "\\u7d2f", "\\u7e37", "\\u964b",
               "\\u52d2", "\\u808b", "\\u51dc", "\\u51cc", "\\u7a1c",
               "\\u7dbe", "\\u83f1", "\\u9675", "\\u8b80", "\\u62cf",
               "\\u6a02", "\\u8afe", "\\u4e39", "\\u5be7", "\\u6012",
               "\\u7387", "\\u7570", "\\u5317", "\\u78fb", "\\u4fbf",
               "\\u5fa9", "\\u4e0d", "\\u6ccc", "\\u6578", "\\u7d22",
               "\\u53c3", "\\u585e", "\\u7701", "\\u8449", "\\u8aaa",
               "\\u6bba", "\\u8fb0", "\\u6c88", "\\u62fe", "\\u82e5",
               "\\u63a0", "\\u7565", "\\u4eae", "\\u5169", "\\u51c9",
               "\\u6881", "\\u7ce7", "\\u826f", "\\u8ad2", "\\u91cf",
               "\\u52f5", "\\u5442", "\\u5973", "\\u5eec", "\\u65c5",
               "\\u6ffe", "\\u792a", "\\u95ad", "\\u9a6a", "\\u9e97",
               "\\u9ece", "\\u529b", "\\u66c6", "\\u6b77", "\\u8f62",
               "\\u5e74", "\\u6190", "\\u6200", "\\u649a", "\\u6f23",
               "\\u7149", "\\u7489", "\\u79ca", "\\u7df4", "\\u806f",
               "\\u8f26", "\\u84ee", "\\u9023", "\\u934a", "\\u5217",
               "\\u52a3", "\\u54bd", "\\u70c8", "\\u88c2", "\\u8aaa",
               "\\u5ec9", "\\u5ff5", "\\u637b", "\\u6bae", "\\u7c3e",
               "\\u7375", "\\u4ee4", "\\u56f9", "\\u5be7", "\\u5dba",
               "\\u601c", "\\u73b2", "\\u7469", "\\u7f9a", "\\u8046",
               "\\u9234", "\\u96f6", "\\u9748", "\\u9818", "\\u4f8b",
               "\\u79ae", "\\u91b4", "\\u96b8", "\\u60e1", "\\u4e86",
               "\\u50da", "\\u5bee", "\\u5c3f", "\\u6599", "\\u6a02",
               "\\u71ce", "\\u7642", "\\u84fc", "\\u907c", "\\u9f8d",
               "\\u6688", "\\u962e", "\\u5289", "\\u677b", "\\u67f3",
               "\\u6d41", "\\u6e9c", "\\u7409", "\\u7559", "\\u786b",
               "\\u7d10", "\\u985e", "\\u516d", "\\u622e", "\\u9678",
               "\\u502b", "\\u5d19", "\\u6dea", "\\u8f2a", "\\u5f8b",
               "\\u6144", "\\u6817", "\\u7387", "\\u9686", "\\u5229",
               "\\u540f", "\\u5c65", "\\u6613", "\\u674e", "\\u68a8",
               "\\u6ce5", "\\u7406", "\\u75e2", "\\u7f79", "\\u88cf",
               "\\u88e1", "\\u91cc", "\\u96e2", "\\u533f", "\\u6eba",
               "\\u541d", "\\u71d0", "\\u7498", "\\u85fa", "\\u96a3",
               "\\u9c57", "\\u9e9f", "\\u6797", "\\u6dcb", "\\u81e8",
               "\\u7acb", "\\u7b20", "\\u7c92", "\\u72c0", "\\u7099",
               "\\u8b58", "\\u4ec0", "\\u8336", "\\u523a", "\\u5207",
               "\\u5ea6", "\\u62d3", "\\u7cd6", "\\u5b85", "\\u6d1e",
               "\\u66b4", "\\u8f3b", "\\u884c", "\\u964d", "\\u898b",
               "\\u5ed3", "\\u5140", "\\u55c0", "\\u585a", "\\u6674",
               "\\u51de", "\\u732a", "\\u76ca", "\\u793c", "\\u795e",
               "\\u7965", "\\u798f", "\\u9756", "\\u7cbe", "\\u7fbd",
               "\\u8612", "\\u8af8", "\\u9038", "\\u90fd", "\\u98ef",
               "\\u98fc", "\\u9928", "\\u9db4", "\\u90de", "\\u96b7",
               "\\u4fae", "\\u50e7", "\\u514d", "\\u52c9", "\\u52e4",
               "\\u5351", "\\u559d", "\\u5606", "\\u5668", "\\u5840",
               "\\u58a8", "\\u5c64", "\\u5c6e", "\\u6094", "\\u6168",
               "\\u618e", "\\u61f2", "\\u654f", "\\u65e2", "\\u6691",
               "\\u6885", "\\u6d77", "\\u6e1a", "\\u6f22", "\\u716e",
               "\\u722b", "\\u7422", "\\u7891", "\\u793e", "\\u7949",
               "\\u7948", "\\u7950", "\\u7956", "\\u795d", "\\u798d",
               "\\u798e", "\\u7a40", "\\u7a81", "\\u7bc0", "\\u7df4",
               "\\u7e09", "\\u7e41", "\\u7f72", "\\u8005", "\\u81ed",
               "\\u8279", "\\u8279", "\\u8457", "\\u8910", "\\u8996",
               "\\u8b01", "\\u8b39", "\\u8cd3", "\\u8d08", "\\u8fb6",
               "\\u9038", "\\u96e3", "\\u97ff", "\\u983b", "\\u6075",
               "\\u{242ee}", "\\u8218", "\\u4e26", "\\u51b5", "\\u5168",
               "\\u4f80", "\\u5145", "\\u5180", "\\u52c7", "\\u52fa",
               "\\u559d", "\\u5555", "\\u5599", "\\u55e2", "\\u585a",
               "\\u58b3", "\\u5944", "\\u5954", "\\u5a62", "\\u5b28",
               "\\u5ed2", "\\u5ed9", "\\u5f69", "\\u5fad", "\\u60d8",
               "\\u614e", "\\u6108", "\\u618e", "\\u6160", "\\u61f2",
               "\\u6234", "\\u63c4", "\\u641c", "\\u6452", "\\u6556",
               "\\u6674", "\\u6717", "\\u671b", "\\u6756", "\\u6b79",
               "\\u6bba", "\\u6d41", "\\u6edb", "\\u6ecb", "\\u6f22",
               "\\u701e", "\\u716e", "\\u77a7", "\\u7235", "\\u72af",
               "\\u732a", "\\u7471", "\\u7506", "\\u753b", "\\u761d",
               "\\u761f", "\\u76ca", "\\u76db", "\\u76f4", "\\u774a",
               "\\u7740", "\\u78cc", "\\u7ab1", "\\u7bc0", "\\u7c7b",
               "\\u7d5b", "\\u7df4", "\\u7f3e", "\\u8005", "\\u8352",
               "\\u83ef", "\\u8779", "\\u8941", "\\u8986", "\\u8996",
               "\\u8abf", "\\u8af8", "\\u8acb", "\\u8b01", "\\u8afe",
               "\\u8aed", "\\u8b39", "\\u8b8a", "\\u8d08", "\\u8f38",
               "\\u9072", "\\u9199", "\\u9276", "\\u967c", "\\u96e3",
               "\\u9756", "\\u97db", "\\u97ff", "\\u980b", "\\u983b",
               "\\u9b12", "\\u9f9c", "\\u{2284a}", "\\u{22844}",
               "\\u{233d5}", "\\u3b9d", "\\u4018", "\\u4039", "\\u{25249}",
               "\\u{25cd0}", "\\u{27ed3}", "\\u9f43", "\\u9f8e", "\\u4e3d",
               "\\u4e38", "\\u4e41", "\\u{20122}", "\\u4f60", "\\u4fae",
               "\\u4fbb", "\\u5002", "\\u507a", "\\u5099", "\\u50e7",
               "\\u50cf", "\\u349e", "\\u{2063a}", "\\u514d", "\\u5154",
               "\\u5164", "\\u5177", "\\u{2051c}", "\\u34b9", "\\u5167",
               "\\u518d", "\\u{2054b}", "\\u5197", "\\u51a4", "\\u4ecc",
               "\\u51ac", "\\u51b5", "\\u{291df}", "\\u51f5", "\\u5203",
               "\\u34df", "\\u523b", "\\u5246", "\\u5272", "\\u5277",
               "\\u3515", "\\u52c7", "\\u52c9", "\\u52e4", "\\u52fa",
               "\\u5305", "\\u5306", "\\u5317", "\\u5349", "\\u5351",
               "\\u535a", "\\u5373", "\\u537d", "\\u537f", "\\u537f",
               "\\u537f", "\\u{20a2c}", "\\u7070", "\\u53ca", "\\u53df",
               "\\u{20b63}", "\\u53eb", "\\u53f1", "\\u5406", "\\u549e",
               "\\u5438", "\\u5448", "\\u5468", "\\u54a2", "\\u54f6",
               "\\u5510", "\\u5553", "\\u5563", "\\u5584", "\\u5584",
               "\\u5599", "\\u55ab", "\\u55b3", "\\u55c2", "\\u5716",
               "\\u5606", "\\u5717", "\\u5651", "\\u5674", "\\u5207",
               "\\u58ee", "\\u57ce", "\\u57f4", "\\u580d", "\\u578b",
               "\\u5832", "\\u5831", "\\u58ac", "\\u{214e4}", "\\u58f2",
               "\\u58f7", "\\u5906", "\\u591a", "\\u5922", "\\u5962",
               "\\u{216a8}", "\\u{216ea}", "\\u59ec", "\\u5a1b", "\\u5a27",
               "\\u59d8", "\\u5a66", "\\u36ee", "\\u36fc", "\\u5b08",
               "\\u5b3e", "\\u5b3e", "\\u{219c8}", "\\u5bc3", "\\u5bd8",
               "\\u5be7", "\\u5bf3", "\\u{21b18}", "\\u5bff", "\\u5c06",
               "\\u5f53", "\\u5c22", "\\u3781", "\\u5c60", "\\u5c6e",
               "\\u5cc0", "\\u5c8d", "\\u{21de4}", "\\u5d43", "\\u{21de6}",
               "\\u5d6e", "\\u5d6b", "\\u5d7c", "\\u5de1", "\\u5de2",
               "\\u382f", "\\u5dfd", "\\u5e28", "\\u5e3d", "\\u5e69",
               "\\u3862", "\\u{22183}", "\\u387c", "\\u5eb0", "\\u5eb3",
               "\\u5eb6", "\\u5eca", "\\u{2a392}", "\\u5efe", "\\u{22331}",
               "\\u{22331}", "\\u8201", "\\u5f22", "\\u5f22", "\\u38c7",
               "\\u{232b8}", "\\u{261da}", "\\u5f62", "\\u5f6b", "\\u38e3",
               "\\u5f9a", "\\u5fcd", "\\u5fd7", "\\u5ff9", "\\u6081",
               "\\u393a", "\\u391c", "\\u6094", "\\u{226d4}", "\\u60c7",
               "\\u6148", "\\u614c", "\\u614e", "\\u614c", "\\u617a",
               "\\u618e", "\\u61b2", "\\u61a4", "\\u61af", "\\u61de",
               "\\u61f2", "\\u61f6", "\\u6210", "\\u621b", "\\u625d",
               "\\u62b1", "\\u62d4", "\\u6350", "\\u{22b0c}", "\\u633d",
               "\\u62fc", "\\u6368", "\\u6383", "\\u63e4", "\\u{22bf1}",
               "\\u6422", "\\u63c5", "\\u63a9", "\\u3a2e", "\\u6469",
               "\\u647e", "\\u649d", "\\u6477", "\\u3a6c", "\\u654f",
               "\\u656c", "\\u{2300a}", "\\u65e3", "\\u66f8", "\\u6649",
               "\\u3b19", "\\u6691", "\\u3b08", "\\u3ae4", "\\u5192",
               "\\u5195", "\\u6700", "\\u669c", "\\u80ad", "\\u43d9",
               "\\u6717", "\\u671b", "\\u6721", "\\u675e", "\\u6753",
               "\\u{233c3}", "\\u3b49", "\\u67fa", "\\u6785", "\\u6852",
               "\\u6885", "\\u{2346d}", "\\u688e", "\\u681f", "\\u6914",
               "\\u3b9d", "\\u6942", "\\u69a3", "\\u69ea", "\\u6aa8",
               "\\u{236a3}", "\\u6adb", "\\u3c18", "\\u6b21", "\\u{238a7}",
               "\\u6b54", "\\u3c4e", "\\u6b72", "\\u6b9f", "\\u6bba",
               "\\u6bbb", "\\u{23a8d}", "\\u{21d0b}", "\\u{23afa}",
               "\\u6c4e", "\\u{23cbc}", "\\u6cbf", "\\u6ccd", "\\u6c67",
               "\\u6d16", "\\u6d3e", "\\u6d77", "\\u6d41", "\\u6d69",
               "\\u6d78", "\\u6d85", "\\u{23d1e}", "\\u6d34", "\\u6e2f",
               "\\u6e6e", "\\u3d33", "\\u6ecb", "\\u6ec7", "\\u{23ed1}",
               "\\u6df9", "\\u6f6e", "\\u{23f5e}", "\\u{23f8e}", "\\u6fc6",
               "\\u7039", "\\u701e", "\\u701b", "\\u3d96", "\\u704a",
               "\\u707d", "\\u7077", "\\u70ad", "\\u{20525}", "\\u7145",
               "\\u{24263}", "\\u719c", "\\u{243ab}", "\\u7228", "\\u7235",
               "\\u7250", "\\u{24608}", "\\u7280", "\\u7295", "\\u{24735}",
               "\\u{24814}", "\\u737a", "\\u738b", "\\u3eac", "\\u73a5",
               "\\u3eb8", "\\u3eb8", "\\u7447", "\\u745c", "\\u7471",
               "\\u7485", "\\u74ca", "\\u3f1b", "\\u7524", "\\u{24c36}",
               "\\u753e", "\\u{24c92}", "\\u7570", "\\u{2219f}", "\\u7610",
               "\\u{24fa1}", "\\u{24fb8}", "\\u{25044}", "\\u3ffc",
               "\\u4008", "\\u76f4", "\\u{250f3}", "\\u{250f2}",
               "\\u{25119}", "\\u{25133}", "\\u771e", "\\u771f", "\\u771f",
               "\\u774a", "\\u4039", "\\u778b", "\\u4046", "\\u4096",
               "\\u{2541d}", "\\u784e", "\\u788c", "\\u78cc", "\\u40e3",
               "\\u{25626}", "\\u7956", "\\u{2569a}", "\\u{256c5}",
               "\\u798f", "\\u79eb", "\\u412f", "\\u7a40", "\\u7a4a",
               "\\u7a4f", "\\u{2597c}", "\\u{25aa7}", "\\u{25aa7}",
               "\\u7aee", "\\u4202", "\\u{25bab}", "\\u7bc6", "\\u7bc9",
               "\\u4227", "\\u{25c80}", "\\u7cd2", "\\u42a0", "\\u7ce8",
               "\\u7ce3", "\\u7d00", "\\u{25f86}", "\\u7d63", "\\u4301",
               "\\u7dc7", "\\u7e02", "\\u7e45", "\\u4334", "\\u{26228}",
               "\\u{26247}", "\\u4359", "\\u{262d9}", "\\u7f7a",
               "\\u{2633e}", "\\u7f95", "\\u7ffa", "\\u8005", "\\u{264da}",
               "\\u{26523}", "\\u8060", "\\u{265a8}", "\\u8070",
               "\\u{2335f}", "\\u43d5", "\\u80b2", "\\u8103", "\\u440b",
               "\\u813e", "\\u5ab5", "\\u{267a7}", "\\u{267b5}",
               "\\u{23393}", "\\u{2339c}", "\\u8201", "\\u8204", "\\u8f9e",
               "\\u446b", "\\u8291", "\\u828b", "\\u829d", "\\u52b3",
               "\\u82b1", "\\u82b3", "\\u82bd", "\\u82e6", "\\u{26b3c}",
               "\\u82e5", "\\u831d", "\\u8363", "\\u83ad", "\\u8323",
               "\\u83bd", "\\u83e7", "\\u8457", "\\u8353", "\\u83ca",
               "\\u83cc", "\\u83dc", "\\u{26c36}", "\\u{26d6b}",
               "\\u{26cd5}", "\\u452b", "\\u84f1", "\\u84f3", "\\u8516",
               "\\u{273ca}", "\\u8564", "\\u{26f2c}", "\\u455d", "\\u4561",
               "\\u{26fb1}", "\\u{270d2}", "\\u456b", "\\u8650", "\\u865c",
               "\\u8667", "\\u8669", "\\u86a9", "\\u8688", "\\u870e",
               "\\u86e2", "\\u8779", "\\u8728", "\\u876b", "\\u8786",
               "\\u45d7", "\\u87e1", "\\u8801", "\\u45f9", "\\u8860",
               "\\u8863", "\\u{27667}", "\\u88d7", "\\u88de", "\\u4635",
               "\\u88fa", "\\u34bb", "\\u{278ae}", "\\u{27966}", "\\u46be",
               "\\u46c7", "\\u8aa0", "\\u8aed", "\\u8b8a", "\\u8c55",
               "\\u{27ca8}", "\\u8cab", "\\u8cc1", "\\u8d1b", "\\u8d77",
               "\\u{27f2f}", "\\u{20804}", "\\u8dcb", "\\u8dbc", "\\u8df0",
               "\\u{208de}", "\\u8ed4", "\\u8f38", "\\u{285d2}",
               "\\u{285ed}", "\\u9094", "\\u90f1", "\\u9111", "\\u{2872e}",
               "\\u911b", "\\u9238", "\\u92d7", "\\u92d8", "\\u927c",
               "\\u93f9", "\\u9415", "\\u{28bfa}", "\\u958b", "\\u4995",
               "\\u95b7", "\\u{28d77}", "\\u49e6", "\\u96c3", "\\u5db2",
               "\\u9723", "\\u{29145}", "\\u{2921a}", "\\u4a6e", "\\u4a76",
               "\\u97e0", "\\u{2940a}", "\\u4ab2", "\\u{29496}", "\\u980b",
               "\\u980b", "\\u9829", "\\u{295b6}", "\\u98e2", "\\u4b33",
               "\\u9929", "\\u99a7", "\\u99c2", "\\u99fe", "\\u4bce",
               "\\u{29b30}", "\\u9b12", "\\u9c40", "\\u9cfd", "\\u4cce",
               "\\u4ced", "\\u9d67", "\\u{2a0ce}", "\\u4cf8", "\\u{2a105}",
               "\\u{2a20e}", "\\u{2a291}", "\\u9ebb", "\\u4d56", "\\u9ef9",
               "\\u9efe", "\\u9f05", "\\u9f0f", "\\u9f16", "\\u9f3b",
               "\\u{2a600}">>,
       rest |-> <<>>],
      [from |-> <<"\\u00c0", "\\u00c8", "\\u00cc", "\\u00d2", "\\u00d9",
                 "\\u00e0", "\\u00e8", "\\u00ec", "\\u00f2", "\\u00f9",
                 "\\u01f8", "\\u01f9", "\\u0400", "\\u040d", "\\u0450",
                 "\\u045d", "\\u1e80", "\\u1e81", "\\u1ef2", "\\u1ef3",
                 "\\u1f70", "\\u1f72", "\\u1f74", "\\u1f76", "\\u1f78",
                 "\\u1f7a", "\\u1f7c", "\\u1fba", "\\u1fc8", "\\u1fca",
                 "\\u1fcd", "\\u1fda", "\\u1fdd", "\\u1fea", "\\u1fed",
                 "\\u1ff8", "\\u1ffa">>,
       to |-> <<"A", "E", "I", "O", "U", "a", "e", "i", "o", "u", "N", "n",
               "\\u0415", "\\u0418", "\\u0435", "\\u0438", "W", "w", "Y",
               "y", "\\u03b1", "\\u03b5", "\\u03b7", "\\u03b9", "\\u03bf",
               "\\u03c5", "\\u03c9", "\\u0391", "\\u0395", "\\u0397",
               "\\u1fbf", "\\u0399", "\\u1ffe", "\\u03a5", "\\u00a8",
               "\\u039f", "\\u03a9">>,
       rest |-> <<"\\u0300">>],
      [from |-> <<"\\u00c1", "\\u00c9", "\\u00cd", "\\u00d3", "\\u00da",
                 "\\u00dd", "\\u00e1", "\\u00e9", "\\u00ed", "\\u00f3",
                 "\\u00fa", "\\u00fd", "\\u0106", "\\u0107", "\\u0139",
                 "\\u013a", "\\u0143", "\\u0144", "\\u0154", "\\u0155",
                 "\\u015a", "\\u015b", "\\u0179", "\\u017a", "\\u01f4",
                 "\\u01f5", "\\u01fc", "\\u01fd", "\\u01fe", "\\u01ff",
                 "\\u0344", "\\u0385", "\\u0386", "\\u0388", "\\u0389",
                 "\\u038a", "\\u038c", "\\u038e", "\\u038f", "\\u03ac",
                 "\\u03ad", "\\u03ae", "\\u03af", "\\u03cc", "\\u03cd",
                 "\\u03ce", "\\u03d3", "\\u0403", "\\u040c", "\\u0453",
                 "\\u045c", "\\u1e30", "\\u1e31", "\\u1e3e", "\\u1e3f",
                 "\\u1e54", "\\u1e55", "\\u1e82", "\\u1e83", "\\u1f71",
                 "\\u1f73", "\\u1f75", "\\u1f77", "\\u1f79", "\\u1f7b",
                 "\\u1f7d", "\\u1fbb", "\\u1fc9", "\\u1fcb", "\\u1fce",
                 "\\u1fdb", "\\u1fde", "\\u1feb", "\\u1fee", "\\u1ff9",
                 "\\u1ffb">>,
       to |-> <<"A", "E", "I", "O", "U", "Y", "a", "e", "i", "o", "u", "y",
               "C", "c", "L", "l", "N", "n", "R", "r", "S", "s", "Z", "z",
               "G", "g", "\\u00c6", "\\u00e6", "\\u00d8", "\\u00f8",
               "\\u0308", "\\u00a8", "\\u0391", "\\u0395", "\\u0397",
               "\\u0399", "\\u039f", "\\u03a5", "\\u03a9", "\\u03b1",
               "\\u03b5", "\\u03b7", "\\u03b9", "\\u03bf", "\\u03c5",
               "\\u03c9", "\\u03d2", "\\u0413", "\\u041a", "\\u0433",
               "\\u043a", "K", "k", "M", "m", "P", "p", "W", "w", "\\u03b1",
               "\\u03b5", "\\u03b7", "\\u03b9", "\\u03bf", "\\u03c5",
               "\\u03c9", "\\u0391", "\\u0395", "\\u0397", "\\u1fbf",
               "\\u0399", "\\u1ffe", "\\u03a5", "\\u00a8", "\\u039f",
               "\\u03a9">>,
       rest |-> <<"\\u0301">>],
      [from |-> <<"\\u00c2", "\\u00ca", "\\u00ce", "\\u00d4", "\\u00db",
                 "\\u00e2", "\\u00ea", "\\u00ee", "\\u00f4", "\\u00fb",
                 "\\u0108", "\\u0109", "\\u011c", "\\u011d", "\\u0124",
                 "\\u0125", "\\u0134", "\\u0135", "\\u015c", "\\u015d",
                 "\\u0174", "\\u0175", "\\u0176", "\\u0177", "\\u1e90",
                 "\\u1e91">>,
       to |-> <<"A", "E", "I", "O", "U", "a", "e", "i", "o", "u", "C", "c",
               "G", "g", "H", "h", "J", "j", "S", "s", "W", "w", "Y", "y",
               "Z", "z">>,
       rest |-> <<"\\u0302">>],
      [from |-> <<"\\u00c3", "\\u00d1", "\\u00d5", "\\u00e3", "\\u00f1",
                 "\\u00f5", "\\u0128", "\\u0129", "\\u0168", "\\u0169",
                 "\\u1e7c", "\\u1e7d", "\\u1ebc", "\\u1ebd", "\\u1ef8",
                 "\\u1ef9">>,
       to |-> <<"A", "N", "O", "a", "n", "o", "I", "i", "U", "u", "V", "v",
               "E", "e", "Y", "y">>,
       rest |-> <<"\\u0303">>],
      [from |-> <<"\\u0100", "\\u0101", "\\u0112", "\\u0113", "\\u012a",
                 "\\u012b", "\\u014c", "\\u014d", "\\u016a", "\\u016b",
                 "\\u01e2", "\\u01e3", "\\u0232", "\\u0233", "\\u04e2",
                 "\\u04e3", "\\u04ee", "\\u04ef", "\\u1e20", "\\u1e21",
                 "\\u1fb1", "\\u1fb9", "\\u1fd1", "\\u1fd9", "\\u1fe1",
                 "\\u1fe9">>,
       to |-> <<"A", "a", "E", "e", "I", "i", "O", "o", "U", "u", "\\u00c6",
               "\\u00e6", "Y", "y", "\\u0418", "\\u0438", "\\u0423",
               "\\u0443", "G", "g", "\\u03b1", "\\u0391", "\\u03b9",
               "\\u0399", "\\u03c5", "\\u03a5">>,
       rest |-> <<"\\u0304">>],
      [from |-> <<"\\u0102", "\\u0103", "\\u0114", "\\u0115", "\\u011e",
                 "\\u011f", "\\u012c", "\\u012d", "\\u014e", "\\u014f",
                 "\\u016c", "\\u016d", "\\u040e", "\\u0419", "\\u0439",
                 "\\u045e", "\\u04c1", "\\u04c2", "\\u04d0", "\\u04d1",
                 "\\u04d6", "\\u04d7", "\\u1fb0", "\\u1fb8", "\\u1fd0",
                 "\\u1fd8", "\\u1fe0", "\\u1fe8">>,
       to |-> <<"A", "a", "E", "e", "G", "g", "I", "i", "O", "o", "U", "u",
               "\\u0423", "\\u0418", "\\u0438", "\\u0443", "\\u0416",
               "\\u0436", "\\u0410", "\\u0430", "\\u0415", "\\u0435",
               "\\u03b1", "\\u0391", "\\u03b9", "\\u0399", "\\u03c5",
               "\\u03a5">>,
       rest |-> <<"\\u0306">>],
      [from |-> <<"\\u010a", "\\u010b", "\\u0116", "\\u0117", "\\u0120",
                 "\\u0121", "\\u0130", "\\u017b", "\\u017c", "\\u0226",
                 "\\u0227", "\\u022e", "\\u022f", "\\u1e02", "\\u1e03",
                 "\\u1e0a", "\\u1e0b", "\\u1e1e", "\\u1e1f", "\\u1e22",
                 "\\u1e23", "\\u1e40", "\\u1e41", "\\u1e44", "\\u1e45",
                 "\\u1e56", "\\u1e57", "\\u1e58", "\\u1e59", "\\u1e60",
                 "\\u1e61", "\\u1e6a", "\\u1e6b", "\\u1e86", "\\u1e87",
                 "\\u1e8a", "\\u1e8b", "\\u1e8e", "\\u1e8f", "\\u1e9b",
                 "\\u{105c9}", "\\u{105e4}">>,
       to |-> <<"C", "c", "E", "e", "G", "g", "I", "Z", "z", "A", "a", "O",
               "o", "B", "b", "D", "d", "F", "f", "H", "h", "M", "m", "N",
               "n", "P", "p", "R", "r", "S", "s", "T", "t", "W", "w", "X",
               "x", "Y", "y", "\\u017f", "\\u{105d2}", "\\u{105da}">>,
       rest |-> <<"\\u0307">>],
      [from |-> <<"\\u00c4", "\\u00cb", "\\u00cf", "\\u00d6", "\\u00dc",
                 "\\u00e4", "\\u00eb", "\\u00ef", "\\u00f6", "\\u00fc",
                 "\\u00ff", "\\u0178", "\\u03aa", "\\u03ab", "\\u03ca",
                 "\\u03cb", "\\u03d4", "\\u0401", "\\u0407", "\\u0451",
                 "\\u0457", "\\u04d2", "\\u04d3", "\\u04da", "\\u04db",
                 "\\u04dc", "\\u04dd", "\\u04de", "\\u04df", "\\u04e4",
                 "\\u04e5", "\\u04e6", "\\u04e7", "\\u04ea", "\\u04eb",
                 "\\u04ec", "\\u04ed", "\\u04f0", "\\u04f1", "\\u04f4",
                 "\\u04f5", "\\u04f8", "\\u04f9", "\\u1e26", "\\u1e27",
                 "\\u1e84", "\\u1e85", "\\u1e8c", "\\u1e8d", "\\u1e97">>,
       to |-> <<"A", "E", "I", "O", "U", "a", "e", "i", "o", "u", "y", "Y",
               "\\u0399", "\\u03a5", "\\u03b9", "\\u03c5", "\\u03d2",
               "\\u0415", "\\u0406", "\\u0435", "\\u0456", "\\u0410",
               "\\u0430", "\\u04d8", "\\u04d9", "\\u0416", "\\u0436",
               "\\u0417", "\\u0437", "\\u0418", "\\u0438", "\\u041e",
               "\\u043e", "\\u04e8", "\\u04e9", "\\u042d", "\\u044d",
               "\\u0423", "\\u0443", "\\u0427", "\\u0447", "\\u042b",
               "\\u044b", "H", "h", "W", "w", "X", "x", "t">>,
       rest |-> <<"\\u0308">>],
      [from |-> <<"\\u1ea2", "\\u1ea3", "\\u1eba", "\\u1ebb", "\\u1ec8",
                 "\\u1ec9", "\\u1ece", "\\u1ecf", "\\u1ee6", "\\u1ee7",
                 "\\u1ef6", "\\u1ef7">>,
       to |-> <<"A", "a", "E", "e", "I", "i", "O", "o", "U", "u", "Y", "y">>,
       rest |-> <<"\\u0309">>],
      [from |-> <<"\\u00c5", "\\u00e5", "\\u016e", "\\u016f", "\\u1e98",
                 "\\u1e99", "\\u212b">>,
       to |-> <<"A", "a", "U", "u", "w", "y", "A">>,
       rest |-> <<"\\u030a">>],
      [from |-> <<"\\u0150", "\\u0151", "\\u0170", "\\u0171", "\\u04f2",
                 "\\u04f3">>,
       to |-> <<"O", "o", "U", "u", "\\u0423", "\\u0443">>,
       rest |-> <<"\\u030b">>],
      [from |-> <<"\\u010c", "\\u010d", "\\u010e", "\\u010f", "\\u011a",
                 "\\u011b", "\\u013d", "\\u013e", "\\u0147", "\\u0148",
                 "\\u0158", "\\u0159", "\\u0160", "\\u0161", "\\u0164",
                 "\\u0165", "\\u017d", "\\u017e", "\\u01cd", "\\u01ce",
                 "\\u01cf", "\\u01d0", "\\u01d1", "\\u01d2", "\\u01d3",
                 "\\u01d4", "\\u01e6", "\\u01e7", "\\u01e8", "\\u01e9",
                 "\\u01ee", "\\u01ef", "\\u01f0", "\\u021e", "\\u021f">>,
       to |-> <<"C", "c", "D", "d", "E", "e", "L", "l", "N", "n", "R", "r",
               "S", "s", "T", "t", "Z", "z", "A", "a", "I", "i", "O", "o",
               "U", "u", "G", "g", "K", "k", "\\u01b7", "\\u0292", "j", "H",
               "h">>,
       rest |-> <<"\\u030c">>],
      [from |-> <<"\\u0200", "\\u0201", "\\u0204", "\\u0205", "\\u0208",
                 "\\u0209", "\\u020c", "\\u020d", "\\u0210", "\\u0211",
                 "\\u0214", "\\u0215", "\\u0476", "\\u0477">>,
       to |-> <<"A", "a", "E", "e", "I", "i", "O", "o", "R", "r", "U", "u",
               "\\u0474", "\\u0475">>,
       rest |-> <<"\\u030f">>],
      [from |-> <<"\\u0202", "\\u0203", "\\u0206", "\\u0207", "\\u020a",
                 "\\u020b", "\\u020e", "\\u020f", "\\u0212", "\\u0213",
                 "\\u0216", "\\u0217">>,
       to |-> <<"A", "a", "E", "e", "I", "i", "O", "o", "R", "r", "U", "u">>,
       rest |-> <<"\\u0311">>],
      [from |-> <<"\\u1f00", "\\u1f08", "\\u1f10", "\\u1f18", "\\u1f20",
                 "\\u1f28", "\\u1f30", "\\u1f38", "\\u1f40", "\\u1f48",
                 "\\u1f50", "\\u1f60", "\\u1f68", "\\u1fe4">>,
       to |-> <<"\\u03b1", "\\u0391", "\\u03b5", "\\u0395", "\\u03b7",
               "\\u0397", "\\u03b9", "\\u0399", "\\u03bf", "\\u039f",
               "\\u03c5", "\\u03c9", "\\u03a9", "\\u03c1">>,
       rest |-> <<"\\u0313">>],
      [from |-> <<"\\u1f01", "\\u1f09", "\\u1f11", "\\u1f19", "\\u1f21",
                 "\\u1f29", "\\u1f31", "\\u1f39", "\\u1f41", "\\u1f49",
                 "\\u1f51", "\\u1f59", "\\u1f61", "\\u1f69", "\\u1fe5",
                 "\\u1fec">>,
       to |-> <<"\\u03b1", "\\u0391", "\\u03b5", "\\u0395", "\\u03b7",
               "\\u0397", "\\u03b9", "\\u0399", "\\u03bf", "\\u039f",
               "\\u03c5", "\\u03a5", "\\u03c9", "\\u03a9", "\\u03c1",
               "\\u03a1">>,
       rest |-> <<"\\u0314">>],
      [from |-> <<"\\u01a0", "\\u01a1", "\\u01af", "\\u01b0">>,
       to |-> <<"O", "o", "U", "u">>,
       rest |-> <<"\\u031b">>],
      [from |-> <<"\\u1e04", "\\u1e05", "\\u1e0c", "\\u1e0d", "\\u1e24",
                 "\\u1e25", "\\u1e32", "\\u1e33", "\\u1e36", "\\u1e37",
                 "\\u1e42", "\\u1e43", "\\u1e46", "\\u1e47", "\\u1e5a",
                 "\\u1e5b", "\\u1e62", "\\u1e63", "\\u1e6c", "\\u1e6d",
                 "\\u1e7e", "\\u1e7f", "\\u1e88", "\\u1e89", "\\u1e92",
                 "\\u1e93", "\\u1ea0", "\\u1ea1", "\\u1eb8", "\\u1eb9",
                 "\\u1eca", "\\u1ecb", "\\u1ecc", "\\u1ecd", "\\u1ee4",
                 "\\u1ee5", "\\u1ef4", "\\u1ef5">>,
       to |-> <<"B", "b", "D", "d", "H", "h", "K", "k", "L", "l", "M", "m",
               "N", "n", "R", "r", "S", "s", "T", "t", "V", "v", "W", "w",
               "Z", "z", "A", "a", "E", "e", "I", "i", "O", "o", "U", "u",
               "Y", "y">>,
       rest |-> <<"\\u0323">>],
      [from |-> <<"\\u1e72", "\\u1e73">>,
       to |-> <<"U", "u">>,
       rest |-> <<"\\u0324">>],
      [from |-> <<"\\u1e00", "\\u1e01">>,
       to |-> <<"A", "a">>,
       rest |-> <<"\\u0325">>],
      [from |-> <<"\\u0218", "\\u0219", "\\u021a", "\\u021b">>,
       to |-> <<"S", "s", "T", "t">>,
       rest |-> <<"\\u0326">>],
      [from |-> <<"\\u00c7", "\\u00e7", "\\u0122", "\\u0123", "\\u0136",
                 "\\u0137", "\\u013b", "\\u013c", "\\u0145", "\\u0146",
                 "\\u0156", "\\u0157", "\\u015e", "\\u015f", "\\u0162",
                 "\\u0163", "\\u0228", "\\u0229", "\\u1e10", "\\u1e11",
                 "\\u1e28", "\\u1e29">>,
       to |-> <<"C", "c", "G", "g", "K", "k", "L", "l", "N", "n", "R", "r",
               "S", "s", "T", "t", "E", "e", "D", "d", "H", "h">>,
       rest |-> <<"\\u0327">>],
      [from |-> <<"\\u0104", "\\u0105", "\\u0118", "\\u0119", "\\u012e",
                 "\\u012f", "\\u0172", "\\u0173", "\\u01ea", "\\u01eb">>,
       to |-> <<"A", "a", "E", "e", "I", "i", "U", "u", "O", "o">>,
       rest |-> <<"\\u0328">>],
      [from |-> <<"\\u1e12", "\\u1e13", "\\u1e18", "\\u1e19", "\\u1e3c",
                 "\\u1e3d", "\\u1e4a", "\\u1e4b", "\\u1e70", "\\u1e71",
                 "\\u1e76", "\\u1e77">>,
       to |-> <<"D", "d", "E", "e", "L", "l", "N", "n", "T", "t", "U", "u">>,
       rest |-> <<"\\u032d">>],
      [from |-> <<"\\u1e2a", "\\u1e2b">>,
       to |-> <<"H", "h">>,
       rest |-> <<"\\u032e">>],
      [from |-> <<"\\u1e1a", "\\u1e1b", "\\u1e2c", "\\u1e2d", "\\u1e74",
                 "\\u1e75">>,
       to |-> <<"E", "e", "I", "i", "U", "u">>,
       rest |-> <<"\\u0330">>],
      [from |-> <<"\\u1e06", "\\u1e07", "\\u1e0e", "\\u1e0f", "\\u1e34",
                 "\\u1e35", "\\u1e3a", "\\u1e3b", "\\u1e48", "\\u1e49",
                 "\\u1e5e", "\\u1e5f", "\\u1e6e", "\\u1e6f", "\\u1e94",
                 "\\u1e95", "\\u1e96">>,
       to |-> <<"B", "b", "D", "d", "K", "k", "L", "l", "N", "n", "R", "r",
               "T", "t", "Z", "z", "h">>,
       rest |-> <<"\\u0331">>],
      [from |-> <<"\\u219a", "\\u219b", "\\u21ae", "\\u21cd", "\\u21ce",
                 "\\u21cf", "\\u2204", "\\u2209", "\\u220c", "\\u2224",
                 "\\u2226", "\\u2241", "\\u2244", "\\u2247", "\\u2249",
                 "\\u2260", "\\u2262", "\\u226d", "\\u226e", "\\u226f",
                 "\\u2270", "\\u2271", "\\u2274", "\\u2275", "\\u2278",
                 "\\u2279", "\\u2280", "\\u2281", "\\u2284", "\\u2285",
                 "\\u2288", "\\u2289", "\\u22ac", "\\u22ad", "\\u22ae",
                 "\\u22af", "\\u22e0", "\\u22e1", "\\u22e2", "\\u22e3",
                 "\\u22ea", "\\u22eb", "\\u22ec", "\\u22ed", "\\u2adc">>,
       to |-> <<"\\u2190", "\\u2192", "\\u2194", "\\u21d0", "\\u21d4",
               "\\u21d2", "\\u2203", "\\u2208", "\\u220b", "\\u2223",
               "\\u2225", "\\u223c", "\\u2243", "\\u2245", "\\u2248", "=",
               "\\u2261", "\\u224d", "<", ">", "\\u2264", "\\u2265",
               "\\u2272", "\\u2273", "\\u2276", "\\u2277", "\\u227a",
               "\\u227b", "\\u2282", "\\u2283", "\\u2286", "\\u2287",
               "\\u22a2", "\\u22a8", "\\u22a9", "\\u22ab", "\\u227c",
               "\\u227d", "\\u2291", "\\u2292", "\\u22b2", "\\u22b3",
               "\\u22b4", "\\u22b5", "\\u2add">>,
       rest |-> <<"\\u0338">>],
      [from |-> <<"\\u1fb6", "\\u1fc1", "\\u1fc6", "\\u1fcf", "\\u1fd6",
                 "\\u1fdf", "\\u1fe6", "\\u1ff6">>,
       to |-> <<"\\u03b1", "\\u00a8", "\\u03b7", "\\u1fbf", "\\u03b9",
               "\\u1ffe", "\\u03c5", "\\u03c9">>,
       rest |-> <<"\\u0342">>],
      [from |-> <<"\\u1fb3", "\\u1fbc", "\\u1fc3", "\\u1fcc", "\\u1ff3",
                 "\\u1ffc">>,
       to |-> <<"\\u03b1", "\\u0391", "\\u03b7", "\\u0397", "\\u03c9",
               "\\u03a9">>,
       rest |-> <<"\\u0345">>],
      [from |-> <<"\\ufb1d">>,
       to |-> <<"\\u05d9">>,
       rest |-> <<"\\u05b4">>],
      [from |-> <<"\\ufb1f", "\\ufb2e">>,
       to |-> <<"\\u05f2", "\\u05d0">>,
       rest |-> <<"\\u05b7">>],
      [from |-> <<"\\ufb2f">>,
       to |-> <<"\\u05d0">>,
       rest |-> <<"\\u05b8">>],
      [from |-> <<"\\ufb4b">>,
       to |-> <<"\\u05d5">>,
       rest |-> <<"\\u05b9">>],
      [from |-> <<"\\ufb30", "\\ufb31", "\\ufb32", "\\ufb33", "\\ufb34",
                 "\\ufb35", "\\ufb36", "\\ufb38", "\\ufb39", "\\ufb3a",
                 "\\ufb3b", "\\ufb3c", "\\ufb3e", "\\ufb40", "\\ufb41",
                 "\\ufb43", "\\ufb44", "\\ufb46", "\\ufb47", "\\ufb48",
                 "\\ufb49", "\\ufb4a">>,
       to |-> <<"\\u05d0", "\\u05d1", "\\u05d2", "\\u05d3", "\\u05d4",
               "\\u05d5", "\\u05d6", "\\u05d8", "\\u05d9", "\\u05da",
               "\\u05db", "\\u05dc", "\\u05de", "\\u05e0", "\\u05e1",
               "\\u05e3", "\\u05e4", "\\u05e6", "\\u05e7", "\\u05e8",
               "\\u05e9", "\\u05ea">>,
       rest |-> <<"\\u05bc">>],
      [from |-> <<"\\ufb4c", "\\ufb4d", "\\ufb4e">>,
       to |-> <<"\\u05d1", "\\u05db", "\\u05e4">>,
       rest |-> <<"\\u05bf">>],
      [from |-> <<"\\ufb2a">>,
       to |-> <<"\\u05e9">>,
       rest |-> <<"\\u05c1">>],
      [from |-> <<"\\ufb2b">>,
       to |-> <<"\\u05e9">>,
       rest |-> <<"\\u05c2">>],
      [from |-> <<"\\u0622">>,
       to |-> <<"\\u0627">>,
       rest |-> <<"\\u0653">>],
      [from |-> <<"\\u0623", "\\u0624", "\\u0626", "\\u06c0", "\\u06c2",
                 "\\u06d3">>,
       to |-> <<"\\u0627", "\\u0648", "\\u064a", "\\u06d5", "\\u06c1",
               "\\u06d2">>,
       rest |-> <<"\\u0654">>],
      [from |-> <<"\\u0625">>,
       to |-> <<"\\u0627">>,
       rest |-> <<"\\u0655">>],
      [from |-> <<"\\u0929", "\\u0931", "\\u0934", "\\u0958", "\\u0959",
                 "\\u095a", "\\u095b", "\\u095c", "\\u095d", "\\u095e",
                 "\\u095f">>,
       to |-> <<"\\u0928", "\\u0930", "\\u0933", "\\u0915", "\\u0916",
               "\\u0917", "\\u091c", "\\u0921", "\\u0922", "\\u092b",
               "\\u092f">>,
       rest |-> <<"\\u093c">>],
      [from |-> <<"\\u09dc", "\\u09dd", "\\u09df">>,
       to |-> <<"\\u09a1", "\\u09a2", "\\u09af">>,
       rest |-> <<"\\u09bc">>],
      [from |-> <<"\\u09cb">>,
       to |-> <<"\\u09c7">>,
       rest |-> <<"\\u09be">>],
      [from |-> <<"\\u09cc">>,
       to |-> <<"\\u09c7">>,
       rest |-> <<"\\u09d7">>],
      [from |-> <<"\\u0a33", "\\u0a36", "\\u0a59", "\\u0a5a", "\\u0a5b",
                 "\\u0a5e">>,
       to |-> <<"\\u0a32", "\\u0a38", "\\u0a16", "\\u0a17", "\\u0a1c",
               "\\u0a2b">>,
       rest |-> <<"\\u0a3c">>],
      [from |-> <<"\\u0b5c", "\\u0b5d">>,
       to |-> <<"\\u0b21", "\\u0b22">>,
       rest |-> <<"\\u0b3c">>],
      [from |-> <<"\\u0b4b">>,
       to |-> <<"\\u0b47">>,
       rest |-> <<"\\u0b3e">>],
      [from |-> <<"\\u0b48">>,
       to |-> <<"\\u0b47">>,
       rest |-> <<"\\u0b56">>],
      [from |-> <<"\\u0b4c">>,
       to |-> <<"\\u0b47">>,
       rest |-> <<"\\u0b57">>],
      [from |-> <<"\\u0bca", "\\u0bcb">>,
       to |-> <<"\\u0bc6", "\\u0bc7">>,
       rest |-> <<"\\u0bbe">>],
      [from |-> <<"\\u0b94", "\\u0bcc">>,
       to |-> <<"\\u0b92", "\\u0bc6">>,
       rest |-> <<"\\u0bd7">>],
      [from |-> <<"\\u0c48">>,
       to |-> <<"\\u0c46">>,
       rest |-> <<"\\u0c56">>],
      [from |-> <<"\\u0cca">>,
       to |-> <<"\\u0cc6">>,
       rest |-> <<"\\u0cc2">>],
      [from |-> <<"\\u0cc0", "\\u0cc7">>,
       to |-> <<"\\u0cbf", "\\u0cc6">>,
       rest |-> <<"\\u0cd5">>],
      [from |-> <<"\\u0cc8">>,
       to |-> <<"\\u0cc6">>,
       rest |-> <<"\\u0cd6">>],
      [from |-> <<"\\u0d4a", "\\u0d4b">>,
       to |-> <<"\\u0d46", "\\u0d47">>,
       rest |-> <<"\\u0d3e">>],
      [from |-> <<"\\u0d4c">>,
       to |-> <<"\\u0d46">>,
       rest |-> <<"\\u0d57">>],
      [from |-> <<"\\u0dda">>,
       to |-> <<"\\u0dd9">>,
       rest |-> <<"\\u0dca">>],
      [from |-> <<"\\u0ddc">>,
       to |-> <<"\\u0dd9">>,
       rest |-> <<"\\u0dcf">>],
      [from |-> <<"\\u0dde">>,
       to |-> <<"\\u0dd9">>,
       rest |-> <<"\\u0ddf">>],
      [from |-> <<"\\u0f73">>,
       to |-> <<"\\u0f71">>,
       rest |-> <<"\\u0f72">>],
      [from |-> <<"\\u0f75">>,
       to |-> <<"\\u0f71">>,
       rest |-> <<"\\u0f74">>],
      [from |-> <<"\\u0f76", "\\u0f78", "\\u0f81">>,
       to |-> <<"\\u0fb2", "\\u0fb3", "\\u0f71">>,
       rest |-> <<"\\u0f80">>],
      [from |-> <<"\\u0f69", "\\u0fb9">>,
       to |-> <<"\\u0f40", "\\u0f90">>,
       rest |-> <<"\\u0fb5">>],
      [from |-> <<"\\u0f43", "\\u0f4d", "\\u0f52", "\\u0f57", "\\u0f5c",
                 "\\u0f93", "\\u0f9d", "\\u0fa2", "\\u0fa7", "\\u0fac">>,
       to |-> <<"\\u0f42", "\\u0f4c", "\\u0f51", "\\u0f56", "\\u0f5b",
               "\\u0f92", "\\u0f9c", "\\u0fa1", "\\u0fa6", "\\u0fab">>,
       rest |-> <<"\\u0fb7">>],
      [from |-> <<"\\u1026">>,
       to |-> <<"\\u1025">>,
       rest |-> <<"\\u102e">>],
      [from |-> <<"\\u1b06", "\\u1b08", "\\u1b0a", "\\u1b0c", "\\u1b0e",
                 "\\u1b12", "\\u1b3b", "\\u1b3d", "\\u1b40", "\\u1b41",
                 "\\u1b43">>,
       to |-> <<"\\u1b05", "\\u1b07", "\\u1b09", "\\u1b0b", "\\u1b0d",
               "\\u1b11", "\\u1b3a", "\\u1b3c", "\\u1b3e", "\\u1b3f",
               "\\u1b42">>,
       rest |-> <<"\\u1b35">>],
      [from |-> <<"\\u304c", "\\u304e", "\\u3050", "\\u3052", "\\u3054",
                 "\\u3056", "\\u3058", "\\u305a", "\\u305c", "\\u305e",
                 "\\u3060", "\\u3062", "\\u3065", "\\u3067", "\\u3069",
                 "\\u3070", "\\u3073", "\\u3076", "\\u3079", "\\u307c",
                 "\\u3094", "\\u309e", "\\u30ac", "\\u30ae", "\\u30b0",
                 "\\u30b2", "\\u30b4", "\\u30b6", "\\u30b8", "\\u30ba",
                 "\\u30bc", "\\u30be", "\\u30c0", "\\u30c2", "\\u30c5",
                 "\\u30c7", "\\u30c9", "\\u30d0", "\\u30d3", "\\u30d6",
                 "\\u30d9", "\\u30dc", "\\u30f4", "\\u30f7", "\\u30f8",
                 "\\u30f9", "\\u30fa", "\\u30fe">>,
       to |-> <<"\\u304b", "\\u304d", "\\u304f", "\\u3051", "\\u3053",
               "\\u3055", "\\u3057", "\\u3059", "\\u305b", "\\u305d",
               "\\u305f", "\\u3061", "\\u3064", "\\u3066", "\\u3068",
               "\\u306f", "\\u3072", "\\u3075", "\\u3078", "\\u307b",
               "\\u3046", "\\u309d", "\\u30ab", "\\u30ad", "\\u30af",
               "\\u30b1", "\\u30b3", "\\u30b5", "\\u30b7", "\\u30b9",
               "\\u30bb", "\\u30bd", "\\u30bf", "\\u30c1", "\\u30c4",
               "\\u30c6", "\\u30c8", "\\u30cf", "\\u30d2", "\\u30d5",
               "\\u30d8", "\\u30db", "\\u30a6", "\\u30ef", "\\u30f0",
               "\\u30f1", "\\u30f2", "\\u30fd">>,
       rest |-> <<"\\u3099">>],
      [from |-> <<"\\u3071", "\\u3074", "\\u3077", "\\u307a", "\\u307d",
                 "\\u30d1", "\\u30d4", "\\u30d7", "\\u30da", "\\u30dd">>,
       to |-> <<"\\u306f", "\\u3072", "\\u3075", "\\u3078", "\\u307b",
               "\\u30cf", "\\u30d2", "\\u30d5", "\\u30d8", "\\u30db">>,
       rest |-> <<"\\u309a">>],
      [from |-> <<"\\u{1109a}", "\\u{1109c}", "\\u{110ab}">>,
       to |-> <<"\\u{11099}", "\\u{1109b}", "\\u{110a5}">>,
       rest |-> <<"\\u{110ba}">>],
      [from |-> <<"\\u{1112e}", "\\u{1112f}">>,
       to |-> <<"\\u{11131}", "\\u{11132}">>,
       rest |-> <<"\\u{11127}">>],
      [from |-> <<"\\u{1134b}">>,
       to |-> <<"\\u{11347}">>,
       rest |-> <<"\\u{1133e}">>],
      [from |-> <<"\\u{1134c}">>,
       to |-> <<"\\u{11347}">>,
       rest |-> <<"\\u{11357}">>],
      [from |-> <<"\\u{113c7}">>,
       to |-> <<"\\u{113c2}">>,
       rest |-> <<"\\u{113b8}">>],
      [from |-> <<"\\u{11385}">>,
       to |-> <<"\\u{11384}">>,
       rest |-> <<"\\u{113bb}">>],
      [from |-> <<"\\u{1138e}", "\\u{113c5}">>,
       to |-> <<"\\u{1138b}", "\\u{113c2}">>,
       rest |-> <<"\\u{113c2}">>],
      [from |-> <<"\\u{11383}", "\\u{11391}", "\\u{113c8}">>,
       to |-> <<"\\u{11382}", "\\u{11390}", "\\u{113c2}">>,
       rest |-> <<"\\u{113c9}">>],
      [from |-> <<"\\u{114bc}">>,
       to |-> <<"\\u{114b9}">>,
       rest |-> <<"\\u{114b0}">>],
      [from |-> <<"\\u{114bb}">>,
       to |-> <<"\\u{114b9}">>,
       rest |-> <<"\\u{114ba}">>],
      [from |-> <<"\\u{114be}">>,
       to |-> <<"\\u{114b9}">>,
       rest |-> <<"\\u{114bd}">>],
      [from |-> <<"\\u{115ba}", "\\u{115bb}">>,
       to |-> <<"\\u{115b8}", "\\u{115b9}">>,
       rest |-> <<"\\u{115af}">>],
      [from |-> <<"\\u{11938}">>,
       to |-> <<"\\u{11935}">>,
       rest |-> <<"\\u{11930}">>],
      [from |-> <<"\\u{16121}">>,
       to |-> <<"\\u{1611e}">>,
       rest |-> <<"\\u{1611e}">>],
      [from |-> <<"\\u{16123}", "\\u{16124}">>,
       to |-> <<"\\u{1611e}", "\\u{16129}">>,
       rest |-> <<"\\u{1611f}">>],
      [from |-> <<"\\u{16125}">>,
       to |-> <<"\\u{1611e}">>,
       rest |-> <<"\\u{16120}">>],
      [from |-> <<"\\u{16122}">>,
       to |-> <<"\\u{1611e}">>,
       rest |-> <<"\\u{16129}">>],
      [from |-> <<"\\u{16d68}", "\\u{16d69}">>,
       to |-> <<"\\u{16d67}", "\\u{16d63}">>,
       rest |-> <<"\\u{16d67}">>],
      [from |-> <<"\\u{1d15e}", "\\u{1d15f}", "\\u{1d1bb}", "\\u{1d1bc}">>,
       to |-> <<"\\u{1d157}", "\\u{1d158}", "\\u{1d1b9}", "\\u{1d1ba}">>,
       rest |-> <<"\\u{1d165}">>],
      [from |-> <<"\\u1fb2", "\\u1fc2", "\\u1ff2">>,
       to |-> <<"\\u03b1", "\\u03b7", "\\u03c9">>,
       rest |-> <<"\\u0300", "\\u0345">>],
      [from |-> <<"\\u1e64", "\\u1e65">>,
       to |-> <<"S", "s">>,
       rest |-> <<"\\u0301", "\\u0307">>],
      [from |-> <<"\\u1fb4", "\\u1fc4", "\\u1ff4">>,
       to |-> <<"\\u03b1", "\\u03b7", "\\u03c9">>,
       rest |-> <<"\\u0301", "\\u0345">>],
      [from |-> <<"\\u1ea6", "\\u1ea7", "\\u1ec0", "\\u1ec1", "\\u1ed2",
                 "\\u1ed3">>,
       to |-> <<"A", "a", "E", "e", "O", "o">>,
       rest |-> <<"\\u0302", "\\u0300">>],
      [from |-> <<"\\u1ea4", "\\u1ea5", "\\u1ebe", "\\u1ebf", "\\u1ed0",
                 "\\u1ed1">>,
       to |-> <<"A", "a", "E", "e", "O", "o">>,
       rest |-> <<"\\u0302", "\\u0301">>],
      [from |-> <<"\\u1eaa", "\\u1eab", "\\u1ec4", "\\u1ec5", "\\u1ed6",
                 "\\u1ed7">>,
       to |-> <<"A", "a", "E", "e", "O", "o">>,
       rest |-> <<"\\u0302", "\\u0303">>],
      [from |-> <<"\\u1ea8", "\\u1ea9", "\\u1ec2", "\\u1ec3", "\\u1ed4",
                 "\\u1ed5">>,
       to |-> <<"A", "a", "E", "e", "O", "o">>,
       rest |-> <<"\\u0302", "\\u0309">>],
      [from |-> <<"\\u1e4c", "\\u1e4d", "\\u1e78", "\\u1e79">>,
       to |-> <<"O", "o", "U", "u">>,
       rest |-> <<"\\u0303", "\\u0301">>],
      [from |-> <<"\\u022c", "\\u022d">>,
       to |-> <<"O", "o">>,
       rest |-> <<"\\u0303", "\\u0304">>],
      [from |-> <<"\\u1e4e", "\\u1e4f">>,
       to |-> <<"O", "o">>,
       rest |-> <<"\\u0303", "\\u0308">>],
      [from |-> <<"\\u1e14", "\\u1e15", "\\u1e50", "\\u1e51">>,
       to |-> <<"E", "e", "O", "o">>,
       rest |-> <<"\\u0304", "\\u0300">>],
      [from |-> <<"\\u1e16", "\\u1e17", "\\u1e52", "\\u1e53">>,
       to |-> <<"E", "e", "O", "o">>,
       rest |-> <<"\\u0304", "\\u0301">>],
      [from |-> <<"\\u1e7a", "\\u1e7b">>,
       to |-> <<"U", "u">>,
       rest |-> <<"\\u0304", "\\u0308">>],
      [from |-> <<"\\u1eb0", "\\u1eb1">>,
       to |-> <<"A", "a">>,
       rest |-> <<"\\u0306", "\\u0300">>],
      [from |-> <<"\\u1eae", "\\u1eaf">>,
       to |-> <<"A", "a">>,
       rest |-> <<"\\u0306", "\\u0301">>],
      [from |-> <<"\\u1eb4", "\\u1eb5">>,
       to |-> <<"A", "a">>,
       rest |-> <<"\\u0306", "\\u0303">>],
      [from |-> <<"\\u1eb2", "\\u1eb3">>,
       to |-> <<"A", "a">>,
       rest |-> <<"\\u0306", "\\u0309">>],
      [from |-> <<"\\u01e0", "\\u01e1", "\\u0230", "\\u0231">>,
       to |-> <<"A", "a", "O", "o">>,
       rest |-> <<"\\u0307", "\\u0304">>],
      [from |-> <<"\\u01db", "\\u01dc", "\\u1fd2", "\\u1fe2">>,
       to |-> <<"U", "u", "\\u03b9", "\\u03c5">>,
       rest |-> <<"\\u0308", "\\u0300">>],
      [from |-> <<"\\u01d7", "\\u01d8", "\\u0390", "\\u03b0", "\\u1e2e",
                 "\\u1e2f", "\\u1fd3", "\\u1fe3">>,
       to |-> <<"U", "u", "\\u03b9", "\\u03c5", "I", "i", "\\u03b9",
               "\\u03c5">>,
       rest |-> <<"\\u0308", "\\u0301">>],
      [from |-> <<"\\u01d5", "\\u01d6", "\\u01de", "\\u01df", "\\u022a",
                 "\\u022b">>,
       to |-> <<"U", "u", "A", "a", "O", "o">>,
       rest |-> <<"\\u0308", "\\u0304">>],
      [from |-> <<"\\u01d9", "\\u01da">>,
       to |-> <<"U", "u">>,
       rest |-> <<"\\u0308", "\\u030c">>],
      [from |-> <<"\\u1fd7", "\\u1fe7">>,
       to |-> <<"\\u03b9", "\\u03c5">>,
       rest |-> <<"\\u0308", "\\u0342">>],
      [from |-> <<"\\u01fa", "\\u01fb">>,
       to |-> <<"A", "a">>,
       rest |-> <<"\\u030a", "\\u0301">>],
      [from |-> <<"\\u1e66", "\\u1e67">>,
       to |-> <<"S", "s">>,
       rest |-> <<"\\u030c", "\\u0307">>],
      [from |-> <<"\\u1f02", "\\u1f0a", "\\u1f12", "\\u1f1a", "\\u1f22",
                 "\\u1f2a", "\\u1f32", "\\u1f3a", "\\u1f42", "\\u1f4a",
                 "\\u1f52", "\\u1f62", "\\u1f6a">>,
       to |-> <<"\\u03b1", "\\u0391", "\\u03b5", "\\u0395", "\\u03b7",
               "\\u0397", "\\u03b9", "\\u0399", "\\u03bf", "\\u039f",
               "\\u03c5", "\\u03c9", "\\u03a9">>,
       rest |-> <<"\\u0313", "\\u0300">>],
      [from |-> <<"\\u1f04", "\\u1f0c", "\\u1f14", "\\u1f1c", "\\u1f24",
                 "\\u1f2c", "\\u1f34", "\\u1f3c", "\\u1f44", "\\u1f4c",
                 "\\u1f54", "\\u1f64", "\\u1f6c">>,
       to |-> <<"\\u03b1", "\\u0391", "\\u03b5", "\\u0395", "\\u03b7",
               "\\u0397", "\\u03b9", "\\u0399", "\\u03bf", "\\u039f",
               "\\u03c5", "\\u03c9", "\\u03a9">>,
       rest |-> <<"\\u0313", "\\u0301">>],
      [from |-> <<"\\u1f06", "\\u1f0e", "\\u1f26", "\\u1f2e", "\\u1f36",
                 "\\u1f3e", "\\u1f56", "\\u1f66", "\\u1f6e">>,
       to |-> <<"\\u03b1", "\\u0391", "\\u03b7", "\\u0397", "\\u03b9",
               "\\u0399", "\\u03c5", "\\u03c9", "\\u03a9">>,
       rest |-> <<"\\u0313", "\\u0342">>],
      [from |-> <<"\\u1f80", "\\u1f88", "\\u1f90", "\\u1f98", "\\u1fa0",
                 "\\u1fa8">>,
       to |-> <<"\\u03b1", "\\u0391", "\\u03b7", "\\u0397", "\\u03c9",
               "\\u03a9">>,
       rest |-> <<"\\u0313", "\\u0345">>],
      [from |-> <<"\\u1f03", "\\u1f0b", "\\u1f13", "\\u1f1b", "\\u1f23",
                 "\\u1f2b", "\\u1f33", "\\u1f3b", "\\u1f43", "\\u1f4b",
                 "\\u1f53", "\\u1f5b", "\\u1f63", "\\u1f6b">>,
       to |-> <<"\\u03b1", "\\u0391", "\\u03b5", "\\u0395", "\\u03b7",
               "\\u0397", "\\u03b9", "\\u0399", "\\u03bf", "\\u039f",
               "\\u03c5", "\\u03a5", "\\u03c9", "\\u03a9">>,
       rest |-> <<"\\u0314", "\\u0300">>],
      [from |-> <<"\\u1f05", "\\u1f0d", "\\u1f15", "\\u1f1d", "\\u1f25",
                 "\\u1f2d", "\\u1f35", "\\u1f3d", "\\u1f45", "\\u1f4d",
                 "\\u1f55", "\\u1f5d", "\\u1f65", "\\u1f6d">>,
       to |-> <<"\\u03b1", "\\u0391", "\\u03b5", "\\u0395", "\\u03b7",
               "\\u0397", "\\u03b9", "\\u0399", "\\u03bf", "\\u039f",
               "\\u03c5", "\\u03a5", "\\u03c9", "\\u03a9">>,
       rest |-> <<"\\u0314", "\\u0301">>],
      [from |-> <<"\\u1f07", "\\u1f0f", "\\u1f27", "\\u1f2f", "\\u1f37",
                 "\\u1f3f", "\\u1f57", "\\u1f5f", "\\u1f67", "\\u1f6f">>,
       to |-> <<"\\u03b1", "\\u0391", "\\u03b7", "\\u0397", "\\u03b9",
               "\\u0399", "\\u03c5", "\\u03a5", "\\u03c9", "\\u03a9">>,
       rest |-> <<"\\u0314", "\\u0342">>],
      [from |-> <<"\\u1f81", "\\u1f89", "\\u1f91", "\\u1f99", "\\u1fa1",
                 "\\u1fa9">>,
       to |-> <<"\\u03b1", "\\u0391", "\\u03b7", "\\u0397", "\\u03c9",
               "\\u03a9">>,
       rest |-> <<"\\u0314", "\\u0345">>],
      [from |-> <<"\\u1edc", "\\u1edd", "\\u1eea", "\\u1eeb">>,
       to |-> <<"O", "o", "U", "u">>,
       rest |-> <<"\\u031b", "\\u0300">>],
      [from |-> <<"\\u1eda", "\\u1edb", "\\u1ee8", "\\u1ee9">>,
       to |-> <<"O", "o", "U", "u">>,
       rest |-> <<"\\u031b", "\\u0301">>],
      [from |-> <<"\\u1ee0", "\\u1ee1", "\\u1eee", "\\u1eef">>,
       to |-> <<"O", "o", "U", "u">>,
       rest |-> <<"\\u031b", "\\u0303">>],
      [from |-> <<"\\u1ede", "\\u1edf", "\\u1eec", "\\u1eed">>,
       to |-> <<"O", "o", "U", "u">>,
       rest |-> <<"\\u031b", "\\u0309">>],
      [from |-> <<"\\u1ee2", "\\u1ee3", "\\u1ef0", "\\u1ef1">>,
       to |-> <<"O", "o", "U", "u">>,
       rest |-> <<"\\u031b", "\\u0323">>],
      [from |-> <<"\\u1eac", "\\u1ead", "\\u1ec6", "\\u1ec7", "\\u1ed8",
                 "\\u1ed9">>,
       to |-> <<"A", "a", "E", "e", "O", "o">>,
       rest |-> <<"\\u0323", "\\u0302">>],
      [from |-> <<"\\u1e38", "\\u1e39", "\\u1e5c", "\\u1e5d">>,
       to |-> <<"L", "l", "R", "r">>,
       rest |-> <<"\\u0323", "\\u0304">>],
      [from |-> <<"\\u1eb6", "\\u1eb7">>,
       to |-> <<"A", "a">>,
       rest |-> <<"\\u0323", "\\u0306">>],
      [from |-> <<"\\u1e68", "\\u1e69">>,
       to |-> <<"S", "s">>,
       rest |-> <<"\\u0323", "\\u0307">>],
      [from |-> <<"\\u1e08", "\\u1e09">>,
       to |-> <<"C", "c">>,
       rest |-> <<"\\u0327", "\\u0301">>],
      [from |-> <<"\\u1e1c", "\\u1e1d">>,
       to |-> <<"E", "e">>,
       rest |-> <<"\\u0327", "\\u0306">>],
      [from |-> <<"\\u01ec", "\\u01ed">>,
       to |-> <<"O", "o">>,
       rest |-> <<"\\u0328", "\\u0304">>],
      [from |-> <<"\\u1fb7", "\\u1fc7", "\\u1ff7">>,
       to |-> <<"\\u03b1", "\\u03b7", "\\u03c9">>,
       rest |-> <<"\\u0342", "\\u0345">>],
      [from |-> <<"\\ufb2c">>,
       to |-> <<"\\u05e9">>,
       rest |-> <<"\\u05bc", "\\u05c1">>],
      [from |-> <<"\\ufb2d">>,
       to |-> <<"\\u05e9">>,
       rest |-> <<"\\u05bc", "\\u05c2">>],
      [from |-> <<"\\u0ccb">>,
       to |-> <<"\\u0cc6">>,
       rest |-> <<"\\u0cc2", "\\u0cd5">>],
      [from |-> <<"\\u0ddd">>,
       to |-> <<"\\u0dd9">>,
       rest |-> <<"\\u0dcf", "\\u0dca">>],
      [from |-> <<"\\u{16126}">>,
       to |-> <<"\\u{1611e}">>,
       rest |-> <<"\\u{1611e}", "\\u{1611f}">>],
      [from |-> <<"\\u{16128}">>,
       to |-> <<"\\u{1611e}">>,
       rest |-> <<"\\u{1611e}", "\\u{16120}">>],
      [from |-> <<"\\u{16127}">>,
       to |-> <<"\\u{1611e}">>,
       rest |-> <<"\\u{16129}", "\\u{1611f}">>],
      [from |-> <<"\\u{16d6a}">>,
       to |-> <<"\\u{16d63}">>,
       rest |-> <<"\\u{16d67}", "\\u{16d67}">>],
      [from |-> <<"\\u{1d160}", "\\u{1d1bd}", "\\u{1d1be}">>,
       to |-> <<"\\u{1d158}", "\\u{1d1b9}", "\\u{1d1ba}">>,
       rest |-> <<"\\u{1d165}", "\\u{1d16e}">>],
      [from |-> <<"\\u{1d161}", "\\u{1d1bf}", "\\u{1d1c0}">>,
       to |-> <<"\\u{1d158}", "\\u{1d1b9}", "\\u{1d1ba}">>,
       rest |-> <<"\\u{1d165}", "\\u{1d16f}">>],
      [from |-> <<"\\u{1d162}">>,
       to |-> <<"\\u{1d158}">>,
       rest |-> <<"\\u{1d165}", "\\u{1d170}">>],
      [from |-> <<"\\u{1d163}">>,
       to |-> <<"\\u{1d158}">>,
       rest |-> <<"\\u{1d165}", "\\u{1d171}">>],
      [from |-> <<"\\u{1d164}">>,
       to |-> <<"\\u{1d158}">>,
       rest |-> <<"\\u{1d165}", "\\u{1d172}">>],
      [from |-> <<"\\u1f82", "\\u1f8a", "\\u1f92", "\\u1f9a", "\\u1fa2",
                 "\\u1faa">>,
       to |-> <<"\\u03b1", "\\u0391", "\\u03b7", "\\u0397", "\\u03c9",
               "\\u03a9">>,
       rest |-> <<"\\u0313", "\\u0300", "\\u0345">>],
      [from |-> <<"\\u1f84", "\\u1f8c", "\\u1f94", "\\u1f9c", "\\u1fa4",
                 "\\u1fac">>,
       to |-> <<"\\u03b1", "\\u0391", "\\u03b7", "\\u0397", "\\u03c9",
               "\\u03a9">>,
       rest |-> <<"\\u0313", "\\u0301", "\\u0345">>],
      [from |-> <<"\\u1f86", "\\u1f8e", "\\u1f96", "\\u1f9e", "\\u1fa6",
                 "\\u1fae">>,
       to |-> <<"\\u03b1", "\\u0391", "\\u03b7", "\\u0397", "\\u03c9",
               "\\u03a9">>,
       rest |-> <<"\\u0313", "\\u0342", "\\u0345">>],
      [from |-> <<"\\u1f83", "\\u1f8b", "\\u1f93", "\\u1f9b", "\\u1fa3",
                 "\\u1fab">>,
       to |-> <<"\\u03b1", "\\u0391", "\\u03b7", "\\u0397", "\\u03c9",
               "\\u03a9">>,
       rest |-> <<"\\u0314", "\\u0300", "\\u0345">>],
      [from |-> <<"\\u1f85", "\\u1f8d", "\\u1f95", "\\u1f9d", "\\u1fa5",
                 "\\u1fad">>,
       to |-> <<"\\u03b1", "\\u0391", "\\u03b7", "\\u0397", "\\u03c9",
               "\\u03a9">>,
       rest |-> <<"\\u0314", "\\u0301", "\\u0345">>],
      [from |-> <<"\\u1f87", "\\u1f8f", "\\u1f97", "\\u1f9f", "\\u1fa7",
                 "\\u1faf">>,
       to |-> <<"\\u03b1", "\\u0391", "\\u03b7", "\\u0397", "\\u03c9",
               "\\u03a9">>,
       rest |-> <<"\\u0314", "\\u0342", "\\u0345">>] >>

\* The canonical decomposition of one character: a Hangul syllable
\* decomposes into its two or three jamo, a character of the table as the
\* table says, any other character is its own decomposition.
Decompose(ch) ==
    IF ~IsEscape(ch) THEN <<ch>>
    ELSE IF IsHangul(ch)
    THEN LET s == HexValue(ch) - 44032
         IN  <<Escape(4352 + (s \div 588)),
               Escape(4449 + ((s % 588) \div 28))>>
             \o (IF s % 28 = 0 THEN <<>> ELSE <<Escape(4519 + (s % 28))>>)
    ELSE LET Holds(row) == \E i \in DOMAIN row.from : row.from[i] = ch
             rows == SelectSeq(Decompositions, Holds)
         IN  IF Len(rows) = 0 THEN <<ch>>
             ELSE LET i == CHOOSE i \in DOMAIN rows[1].from :
                               rows[1].from[i] = ch
                  IN  <<rows[1].to[i]>> \o rows[1].rest

RECURSIVE DecomposeAll(_)
DecomposeAll(chars) ==
    IF Len(chars) = 0 THEN <<>>
    ELSE Decompose(chars[1]) \o DecomposeAll(Tail(chars))

\* The canonical ordering: two characters next to each other change places
\* while the first has the higher combining class and the second is no
\* starter (class 0).
RECURSIVE CanonicalOrder(_)
CanonicalOrder(s) ==
    LET Reorderable(i) ==
            /\ CombiningClass(s[i + 1]) > 0
            /\ CombiningClass(s[i]) > CombiningClass(s[i + 1])
    IN  IF \E i \in 1..(Len(s) - 1) : Reorderable(i)
        THEN LET i == CHOOSE i \in 1..(Len(s) - 1) : Reorderable(i)
             IN  CanonicalOrder([s EXCEPT ![i] = s[i + 1], ![i + 1] = s[i]])
        ELSE s

\* filename.normalize("NFD"), as characters.
normalizeNFD(filename) == CanonicalOrder(DecomposeAll(Characters(filename)))

\* What the replacement makes of one character: "_" unless the class
\* [a-zA-Z0-9\u0300-\u036F] holds it.
SafeChar(ch) == IF ch \in AlphaNumeric \/ IsMark(ch) THEN ch ELSE "_"

\* Two strings put together; the characters at the seam stay in one token
\* unless one of them is a mark.
Glue(a, b) ==
    IF Len(a) = 0 \/ Len(b) = 0 \/ IsMark(a[Len(a)]) \/ IsMark(b[1])
    THEN a \o b
    ELSE SubSeq(a, 1, Len(a) - 1) \o <<a[Len(a)] \o b[1]>> \o Tail(b)

\* .replace(/[^a-zA-Z0-9\u0300-\u036F]/gu, "_") on the characters of a
\* string.
RECURSIVE SafeTokens(_)
SafeTokens(chars) ==
    IF Len(chars) = 0 THEN <<>>
    ELSE Glue(<<SafeChar(chars[1])>>, SafeTokens(Tail(chars)))

\* getSafeFilename(filename): the string in its decomposed form, with "_"
\* for every character that is neither alphanumeric nor a combining mark
\* of U+0300-U+036F.
getSafeFilename(filename) == SafeTokens(normalizeNFD(filename))

\* A test that finds nothing.
IncludesNever(s, ch) == FALSE

\* String.prototype.includes(ch) for a one-character ch.
Includes(s, ch) == ch \in Range(s)

\* yaml ? "yml" : "json"
Ext(yaml) == IF yaml THEN "yml" ELSE "json"

\* key.startsWith("!folders")
IsFolderKey(key) ==
    /\ Len(key) >= 2
    /\ key[1] = "!"
    /\ Len(key[2]) >= 7
    /\ SubSeq(key[2], 1, 7) = "folders"

\* The first loop of the folder pre-pass, from the entry at index i on.
\* The map is keyed by doc._id as it is, undefined included.  yielding
\* tells what transformFolderName returns: the name it maps the _id to,
\* and nothing for any other.
RECURSIVE CollectFolders(_, _, _, _, _)
CollectFolders(db, keys, i, yielding, map) ==
    IF i > Len(keys) THEN map
    ELSE LET key == keys[i]
             doc == db[key]
             id == Ref(doc, "_id")
             yielded == IF id \in DOMAIN yielding THEN yielding[id] ELSE <<>>
             name == IF yielded # <<>> THEN yielded
                     ELSE IF StrField(doc, "name") # <<>>
                          THEN getSafeFilename(doc.name) \o <<"_">>
                               \o Interpolated(id)
                          ELSE key
             entry == [name |-> name, folder |-> Ref(doc, "folder"),
                       path |-> <<>>]
         IN  IF ~IsFolderKey(key)
             THEN CollectFolders(db, keys, i + 1, yielding, map)
             ELSE CollectFolders(db, keys, i + 1, yielding,
                                 [k \in (DOMAIN map) \cup {id} |->
                                     IF k = id THEN entry ELSE map[k]])

\* An `if (parent)` in place of the `while (parent)`: one link is followed.
ClimbFoldersOnce(map, parent, path, steps) ==
    IF parent \notin DOMAIN map THEN [ends |-> TRUE, path |-> path]
    ELSE [ends |-> TRUE, path |-> PathJoin(map[parent].name, path)]

\* The while loop that resolves one folder's path; parent is the reference
\* foldersMap.get is given next and steps counts the links followed.  A
\* chain of parent references longer than the map is large has entered a
\* cycle: the loop never ends.
RECURSIVE ClimbFolders(_, _, _, _)
ClimbFolders(map, parent, path, steps) ==
    IF parent \notin DOMAIN map THEN [ends |-> TRUE, path |-> path]
    ELSE IF steps > Cardinality(DOMAIN map) THEN [ends |-> FALSE, path |-> path]
    ELSE ClimbFolders(map, map[parent].folder,
                      PathJoin(map[parent].name, path), steps + 1)

FolderPath(map, id) == ClimbFolders(map, map[id].folder, map[id].name, 1)

\* The second loop of the pre-pass: every folder gets its path.
ResolveFolders(map) ==
    [id \in DOMAIN map |-> [map[id] EXCEPT !.path = FolderPath(map, id).path]]

\* The test of a loop that always ends.
FoldersAcyclicAlways(map) == TRUE

FoldersAcyclic(map) == \A id \in DOMAIN map : FolderPath(map, id).ends

\* serializeDocument(doc, filename, {yaml}): the text written, as the
\* document a parser reads back from it.  YAML.dump (js-yaml 4) treats
\* undefined as JSON.stringify does: it leaves out a property that holds it
\* and writes null for it in an array.
Serialized(doc, yaml) == JsonValue(doc)

ExtractOptions(yaml, log, folders, tEntry, tName, tFolderName) ==
    [op |-> "extract", yaml |-> yaml, log |-> log, folders |-> folders,
     transformEntry |-> tEntry, transformName |-> tName,
     transformFolderName |-> tFolderName]

\* A path relative to dest that leads out of it.
Outside(path) ==
    /\ Len(path) >= 2
    /\ path[1] = "."
    /\ path[2] = "."
    /\ (Len(path) = 2 \/ path[3] = "/")

\* fse.rmSync(dest, {recursive: true, force: true}), on the files that
\* destDir records: those under dest go.
Removed(fs) == [p \in {q \in DOMAIN fs : Outside(q)} |-> fs[p]]

\* An extractPack that prepares the destination before it checks
\* documentType.
ExtractPackCleanFirst(nedb, hasDocumentType, clean, o) ==
    /\ pc = "idle"
    /\ options' = SetField(o, "clean", clean)
    /\ dbCalls' = IF nedb \/ ~hasDocumentType \/ dbOpen THEN <<>> ELSE <<"open">>
    /\ UNCHANGED <<store, compileVars, storeAtOpen, console, foldersMap,
                   written, walked, dropped, unpackVisits>>
    /\ destDir' = IF clean THEN Dir(Removed(destDir.files))
                  ELSE Dir(destDir.files)
    /\ extractedFrom' = NoSource
    /\ IF nedb \/ ~hasDocumentType \/ dbOpen
       THEN /\ error' = Threw(IF nedb THEN "nedb"
                              ELSE IF ~hasDocumentType THEN "config"
                              ELSE "open", <<>>)
            /\ pc' = "thrown"
            /\ UNCHANGED <<dbOpen, cursor>>
       ELSE /\ error' = NoError
            /\ dbOpen' = TRUE
            /\ cursor' = SortedKeys(DOMAIN store)
            /\ pc' = IF o.folders THEN "folders" ELSE "extracting"

\* extractPack down to `await db.open()` in extractClassicLevel: the
\* checks, `if (clean) fse.rmSync(dest, ...)`, fse.mkdirSync(dest), and the
\* open.  Without clean the files of the destination stay where they are.
ExtractPack(nedb, hasDocumentType, clean, o) ==
    /\ pc = "idle"
    /\ options' = SetField(o, "clean", clean)
    /\ dbCalls' = IF nedb \/ ~hasDocumentType \/ dbOpen THEN <<>> ELSE <<"open">>
    /\ UNCHANGED <<store, compileVars, storeAtOpen, console, foldersMap,
                   written, walked, dropped, unpackVisits>>
    /\ IF nedb
       THEN /\ error' = Threw("nedb", <<>>)
            /\ pc' = "thrown"
            /\ UNCHANGED <<dbOpen, destDir, extractedFrom, cursor>>
       ELSE IF ~hasDocumentType
       THEN /\ error' = Threw("config", <<>>)
            /\ pc' = "thrown"
            /\ UNCHANGED <<dbOpen, destDir, extractedFrom, cursor>>
       ELSE /\ destDir' = IF clean THEN Dir(Removed(destDir.files))
                          ELSE Dir(destDir.files)
            /\ extractedFrom' = NoSource
            /\ IF dbOpen
               THEN /\ error' = Threw("open", <<>>)
                    /\ pc' = "thrown"
                    /\ UNCHANGED <<dbOpen, cursor>>
               ELSE /\ error' = NoError
                    /\ dbOpen' = TRUE
                    /\ cursor' = SortedKeys(DOMAIN store)
                    /\ pc' = IF o.folders THEN "folders" ELSE "extracting"

\* "Build up the folder structure": both loops of the pre-pass.  throws
\* tells whether transformFolderName throws (on the first folder it is
\* given).  With a cycle of parent references the second loop never ends.
BuildFolders(yielding, throws) ==
    /\ pc = "folders"
    /\ DOMAIN yielding \subseteq
           IF options.transformFolderName /\ ~throws
           THEN {Ref(store[k], "_id") :
                    k \in {fk \in DOMAIN store : IsFolderKey(fk)}}
           ELSE {}
    /\ throws => /\ options.transformFolderName
                 /\ \E k \in DOMAIN store : IsFolderKey(k)
    /\ LET map == CollectFolders(store, SortedKeys(DOMAIN store), 1, yielding,
                                 EmptyMap)
       IN  IF throws
           THEN /\ foldersMap' = EmptyMap
                /\ error' = Threw("transform", <<>>)
                /\ pc' = "thrown"
           ELSE IF FoldersAcyclic(map)
           THEN /\ foldersMap' = ResolveFolders(map)
                /\ pc' = "extracting"
                /\ UNCHANGED error
           ELSE /\ foldersMap' = map
                /\ pc' = "spinning"
                /\ UNCHANGED error
    /\ UNCHANGED <<store, dbOpen, options, compileVars, storeAtOpen,
                   console, destDir, extractedFrom, cursor, written, walked,
                   dropped, unpackVisits, dbCalls>>

\* What transformName(doc, {folder}) returns: "./", the document's _id and
\* the extension ("name"), or the _id and the extension under
\* context.folder, under "loose" where that is undefined ("filed").
Named(naming, doc, folder, ext) ==
    (IF naming = "name" THEN <<".">>
     ELSE IF folder = <<>> THEN <<"loose">>
     ELSE folder) \o <<"/">> \o StrField(doc, "_id") \o ext

\* The name without the folder's path in front of it.
FileNameFlat(key, doc, naming) ==
    LET ext == <<".", Ext(options.yaml)>>
        folder == IF Ref(doc, "folder") \in DOMAIN foldersMap
                  THEN foldersMap[Ref(doc, "folder")].path
                  ELSE <<>>
    IN  IF naming # "default" THEN Named(naming, doc, folder, ext)
        ELSE IF IsFolderKey(key) /\ Ref(doc, "_id") \in DOMAIN foldersMap
        THEN PathJoin(foldersMap[Ref(doc, "_id")].name,
                      <<"_", "Folder">> \o ext)
        ELSE (IF StrField(doc, "name") # <<>>
              THEN getSafeFilename(doc.name) \o <<"_">>
                   \o (IF Len(Split(key, "!")) >= 3 THEN KeyId(key)
                       ELSE <<"undefined">>)
              ELSE key) \o ext

\* The name of the file of one primary document (lines 227-237).  naming
\* tells what transformName returns: nothing ("default") or a name.
FileName(key, doc, naming) ==
    LET id == IF Len(Split(key, "!")) >= 3 THEN KeyId(key)
              ELSE <<"undefined">>
        folder == IF Ref(doc, "folder") \in DOMAIN foldersMap
                  THEN foldersMap[Ref(doc, "folder")].path
                  ELSE <<>>
        ext == <<".", Ext(options.yaml)>>
        default ==
            IF IsFolderKey(key) /\ Ref(doc, "_id") \in DOMAIN foldersMap
            THEN PathJoin(foldersMap[Ref(doc, "_id")].name,
                          <<"_", "Folder">> \o ext)
            ELSE (IF StrField(doc, "name") # <<>>
                  THEN getSafeFilename(doc.name) \o <<"_">> \o id
                  ELSE key) \o ext
    IN  IF naming # "default" THEN Named(naming, doc, folder, ext)
        ELSE IF folder # <<>> THEN PathJoin(folder, default)
        ELSE default

\* path.join(dest, name)
FilePath(name) == PathJoin(Here, name)

FailToExtract(err) ==
    /\ error' = err
    /\ pc' = "thrown"
    /\ UNCHANGED <<destDir, cursor, written, console>>

\* One turn of the main loop.  outcome is what options.transformEntry does
\* ("keep", "discard", "throw"); naming what options.transformName does:
\* it returns nothing ("default"), returns a name ("name", "filed") or
\* throws ("throw").
ExtractEntry(outcome, naming) ==
    /\ pc = "extracting"
    /\ Len(cursor) > 0
    /\ outcome \in IF options.transformEntry THEN {"keep", "discard", "throw"}
                   ELSE {"keep"}
    /\ naming \in IF options.transformName
                  THEN {"default", "name", "filed", "throw"}
                  ELSE {"default"}
    /\ UNCHANGED <<store, dbOpen, options, compileVars, storeAtOpen,
                   foldersMap, extractedFrom, dbCalls>>
    /\ walked' = IF \/ Len(Split(cursor[1], "!")) < 2
                    \/ Includes(KeyCollection(cursor[1]), ".")
                 THEN walked
                 ELSE Append(walked, cursor[1])
    /\ LET key == cursor[1]
           collection == KeyCollection(key)
           st0 == [db |-> store, seenKeys |-> {}, batch |-> <<>>,
                   err |-> NoError, visits |-> <<>>]
           r == applyHierarchy("unpackDoc", store[key], collection, st0)
           name == FileName(key, r.doc, naming)
           filename == FilePath(name)
           \* a key without "!" has no collection: collection.includes throws
           keyless == Len(Split(key, "!")) < 2
       IN  /\ unpackVisits' = IF keyless \/ Includes(collection, ".")
                              THEN unpackVisits
                              ELSE r.st.visits
           /\ dropped' = IF /\ outcome = "discard"
                            /\ ~keyless
                            /\ ~Includes(collection, ".")
                            /\ r.st.err = NoError
                         THEN Append(dropped, key)
                         ELSE dropped
           /\ IF keyless THEN FailToExtract(Threw("type", <<>>))
              ELSE IF Includes(collection, ".")
              THEN /\ cursor' = Tail(cursor)
                   /\ UNCHANGED <<destDir, written, error, console, pc>>
              ELSE IF r.st.err # NoError THEN FailToExtract(r.st.err)
              ELSE IF outcome = "throw" THEN FailToExtract(Threw("transform", <<>>))
              ELSE IF Discards(outcome)
              THEN /\ cursor' = Tail(cursor)
                   /\ UNCHANGED <<destDir, written, error, console, pc>>
              ELSE IF naming = "throw"
              THEN FailToExtract(Threw("transform", <<>>))
              ELSE /\ destDir' =
                        Dir([f \in (DOMAIN destDir.files) \cup {filename} |->
                                IF f = filename
                                THEN Serialized(r.doc, options.yaml)
                                ELSE destDir.files[f]])
                   /\ written' = Append(written, [key |-> key, name |-> name,
                                                  naming |-> naming])
                   /\ console' = IF options.log
                                 THEN Append(console,
                                        [level |-> "log", text |-> <<"Wrote">>,
                                         subject |-> name])
                                 ELSE console
                   /\ cursor' = Tail(cursor)
                   /\ UNCHANGED <<error, pc>>

\* `await db.close()` and the return.  extractedFrom records the run when
\* the files of the destination are the files this run wrote.
ExtractClose ==
    /\ pc = "extracting"
    /\ Len(cursor) = 0
    /\ dbOpen' = FALSE
    /\ dbCalls' = Append(dbCalls, "close")
    /\ pc' = "returned"
    /\ extractedFrom' =
           IF DOMAIN destDir.files
                  = {FilePath(written[i].name) : i \in DOMAIN written}
           THEN [known |-> TRUE, store |-> store, options |-> options]
           ELSE NoSource
    /\ UNCHANGED <<store, options, compileVars, storeAtOpen, error, console,
                   destDir, extractVars>>

\* The extraction directory is removed from outside.
RemoveDest ==
    /\ pc = "idle"
    /\ destDir.exists
    /\ destDir' = [exists |-> FALSE, files |-> Removed(destDir.files)]
    /\ extractedFrom' = NoSource
    /\ UNCHANGED <<store, dbOpen, pc, options, compileVars, storeAtOpen,
                   error, console, extractVars, dbCalls>>

(***************************************************************************)
(* The runs of the model.                                                  *)
(***************************************************************************)
\* The option settings of compilePack: JSON sources with and without
\* recursive, a logged run with transformEntry, a logged YAML run and an
\* nedb run.
CompileSettings ==
    { [nedb |-> FALSE, yaml |-> FALSE, recursive |-> r, log |-> FALSE,
       transformEntry |-> FALSE] : r \in BOOLEAN }
    \cup { [nedb |-> FALSE, yaml |-> FALSE, recursive |-> FALSE, log |-> TRUE,
            transformEntry |-> TRUE],
           [nedb |-> FALSE, yaml |-> TRUE, recursive |-> FALSE, log |-> TRUE,
            transformEntry |-> FALSE],
           [nedb |-> TRUE, yaml |-> FALSE, recursive |-> FALSE, log |-> FALSE,
            transformEntry |-> FALSE] }

\* The extraction directory as a source directory.  at is a directory in
\* it, as the sequence of the names that lead to it.
Below(at) ==
    {p \in DOMAIN destDir.files :
        /\ ~Outside(p)
        /\ Len(Split(p, "/")) > Len(at)
        /\ SubSeq(Split(p, "/"), 1, Len(at)) = at}

IsFileAt(at, name) == Join(Append(at, name), "/") \in DOMAIN destDir.files

FileAt(at, name) ==
    SourceFile(name, destDir.files[Join(Append(at, name), "/")])

\* The names of the entries of the directory at that findSourceFiles does
\* not pass over: the files of the format and, with recursive, the
\* directories.
Found(at, yaml, recursive) ==
    {name \in {Split(p, "/")[Len(at) + 1] : p \in Below(at)} :
        IF IsFileAt(at, name)
        THEN IF yaml THEN IsYamlExt(ExtName(name))
             ELSE ExtName(name) = <<".", "json">>
        ELSE recursive}

\* What readdirSync may list for the directory at: the entries named, in
\* any order, a directory with any listing of its own.  (The entries that
\* findSourceFiles passes over are left out; where they stand in the
\* listing makes no difference to what it finds.)
RECURSIVE Listings(_, _, _, _)
Listings(at, names, yaml, recursive) ==
    IF names = {} THEN {<<>>}
    ELSE UNION
         {LET entries ==
                  IF IsFileAt(at, name) THEN {FileAt(at, name)}
                  ELSE {SubDir(name, l) :
                           l \in Listings(Append(at, name),
                                          Found(Append(at, name), yaml, recursive),
                                          yaml, recursive)}
          IN  {<<e>> \o rest :
                  e \in entries,
                  rest \in Listings(at, names \ {name}, yaml, recursive)} :
             name \in names}

DestListings(yaml, recursive) ==
    Listings(<<>>, Found(<<>>, yaml, recursive), yaml, recursive)

\* The option settings of extractPack.
Plain(yaml, folders) == ExtractOptions(yaml, FALSE, folders, FALSE, FALSE, FALSE)

ExtractSettings ==
    { [nedb |-> FALSE, hasDocumentType |-> TRUE, clean |-> c, o |-> Plain(y, f)] :
          c, y, f \in BOOLEAN }
    \cup { [nedb |-> FALSE, hasDocumentType |-> FALSE, clean |-> c,
            o |-> Plain(FALSE, FALSE)] : c \in BOOLEAN }
    \cup { [nedb |-> TRUE, hasDocumentType |-> TRUE, clean |-> TRUE,
            o |-> Plain(FALSE, FALSE)],
           [nedb |-> FALSE, hasDocumentType |-> TRUE, clean |-> TRUE,
            o |-> ExtractOptions(FALSE, TRUE, FALSE, TRUE, FALSE, FALSE)],
           [nedb |-> FALSE, hasDocumentType |-> TRUE, clean |-> TRUE,
            o |-> ExtractOptions(FALSE, FALSE, TRUE, TRUE, FALSE, FALSE)],
           [nedb |-> FALSE, hasDocumentType |-> TRUE, clean |-> TRUE,
            o |-> ExtractOptions(FALSE, FALSE, TRUE, FALSE, TRUE, FALSE)],
           [nedb |-> FALSE, hasDocumentType |-> TRUE, clean |-> TRUE,
            o |-> ExtractOptions(FALSE, FALSE, TRUE, FALSE, FALSE, TRUE)] }

\* No extraction has written a file outside its destination.
Contained == \A name \in DOMAIN destDir.files : ~Outside(name)

\* Runs are started while no file lies outside the destination.  Source
\* directories of the pool are compiled while no extraction directory is
\* around; an extraction directory is compiled when it holds what an
\* extraction without hooks wrote, and nothing else.
CompilePool ==
    /\ pc = "idle"
    /\ Contained
    /\ ~destDir.exists
    /\ \E dir \in SourceDirs, o \in CompileSettings :
           CompilePack(dir, o.nedb, o.yaml, o.recursive, o.log, o.transformEntry)

CompileDest ==
    /\ pc = "idle"
    /\ Contained
    /\ destDir.exists
    /\ extractedFrom.known
    /\ ~extractedFrom.options.transformEntry
    /\ ~extractedFrom.options.transformName
    /\ ~extractedFrom.options.transformFolderName
    /\ \E yaml \in BOOLEAN :
           \E dir \in DestListings(yaml, TRUE) :
               CompilePack(dir, FALSE, yaml, TRUE, FALSE, FALSE)

\* An extraction that does not clean is run on a destination of at most
\* MaxKept files.
Extract ==
    /\ pc = "idle"
    /\ Contained
    /\ \E x \in ExtractSettings :
           /\ x.clean \/ Cardinality(DOMAIN destDir.files) <= MaxKept
           /\ ExtractPack(x.nedb, x.hasDocumentType, x.clean, x.o)

\* The _ids for which transformFolderName may return a name, and those
\* for which the name may be another than the _id.
Yieldable == {Str(<<"fA">>), Str(<<"fB">>), Str(<<"fC">>), Str(<<"zz">>)}

Leavable == {Str(<<"fA">>), Str(<<"fB">>)}

\* The names transformFolderName may return for a folder: its _id, and for
\* some ".", ".." and a path with a "." segment in it.
FolderNames(id) ==
    {id.str}
    \cup (IF id \in Leavable
          THEN {<<".">>, <<".", ".">>, <<"in", "/", ".", "/">> \o id.str}
          ELSE {})

\* What transformFolderName may return, by _id.
Yields ==
    {y \in UNION {[ids -> UNION {FolderNames(id) : id \in Yieldable}] :
                      ids \in SUBSET Yieldable} :
        \A id \in DOMAIN y : y[id] \in FolderNames(id)}

Next ==
    \/ CompilePool
    \/ CompileDest
    \/ \E outcome \in {"keep", "discard", "throw"} : CompileFile(outcome)
    \/ StageDeletes
    \/ BatchWrite
    \/ Compact
    \/ CompileClose
    \/ Extract
    \/ \E yielding \in Yields, throws \in BOOLEAN :
           BuildFolders(yielding, throws)
    \/ \E outcome \in {"keep", "discard", "throw"},
          naming \in {"default", "name", "filed", "throw"} :
           ExtractEntry(outcome, naming)
    \/ ExtractClose
    \/ Settle
    \/ RemoveDest
    \/ ReleaseHandle

Spec == Init /\ [][Next]_vars

(***************************************************************************)
(* Properties.  What follows describes the runs above; none of it is part  *)
(* of the transcoder.                                                      *)
(***************************************************************************)
CompileRun == options.op = "compile"

ExtractRun == options.op = "extract"

Puts(ops) == SelectSeq(ops, LAMBDA o : o.type = "put")

\* The number of segments of a key's collection path.
Segments(key) == Len(Split(KeyCollection(key), "."))

\* The _key of a source file's document, <<>> if it has none.
FileKey(f) ==
    IF ~f.malformed /\ IsObject(f.doc) /\ Has(f.doc, "_key") THEN f.doc._key
    ELSE <<>>

\* A compile run that has not thrown.
Packing == CompileRun /\ pc \in {"packing", "write", "compact", "close", "returned"}

\* C1: when a compile run throws, whatever the file it throws on and
\* however many files were staged before, the store is what it was when
\* the run began.
C1_AbortLeavesStore ==
    (CompileRun /\ pc = "thrown") => store = storeAtOpen

\* A run over a non-empty store throws on a later file with puts staged
\* that would have changed the store.
C1_Witness ==
    /\ CompileRun
    /\ pc = "thrown"
    /\ error.kind \in {"parse", "transform", "duplicate"}
    /\ fileIdx > 1
    /\ storeAtOpen # EmptyStore
    /\ ApplyBatch(storeAtOpen, batch) # storeAtOpen

\* The seen-set as the first n files of the run left it (the files the hook
\* discarded add nothing to it).
RECURSIVE SeenAfter(_)
SeenAfter(n) ==
    IF n = 0 THEN {}
    ELSE IF n \in Range(skipped) THEN SeenAfter(n - 1)
    ELSE applyHierarchy("packDoc", files[n].doc,
                        KeyCollection(files[n].doc._key),
                        [db |-> store, seenKeys |-> SeenAfter(n - 1),
                         batch |-> <<>>, err |-> NoError,
                         visits |-> <<>>]).st.seenKeys

\* C2: within one compile run no key is put twice; without a hook that
\* discards files, no two files with the same _key are both got past; and
\* the run that comes to a file whose _key is already in the seen-set
\* throws the duplicate-key error for that key with the store unchanged.
C2_DuplicateKeyFails ==
    CompileRun =>
        /\ \A i, j \in DOMAIN batch :
               (i < j /\ batch[i].type = "put" /\ batch[j].type = "put")
                   => batch[i].key # batch[j].key
        /\ ~options.transformEntry =>
               \A i, j \in 1..(fileIdx - 1) :
                   i < j => FileKey(files[i]) # FileKey(files[j])
        /\ (/\ pc = "thrown"
            /\ fileIdx <= Len(files)
            /\ error.kind # "transform"
            /\ FileKey(files[fileIdx]) \in SeenAfter(fileIdx - 1))
               => /\ error = Threw("duplicate", FileKey(files[fileIdx]))
                  /\ store = storeAtOpen

\* The second of two files with one key is hero (heroTwin came first), and
\* the key is in the store already.
C2_Witness ==
    /\ CompileRun
    /\ pc = "thrown"
    /\ error.kind = "duplicate"
    /\ files[fileIdx] = hero
    /\ error.subject \in DOMAIN storeAtOpen

\* C3: once the batch of a compile run is written, the keys of the store
\* are the keys of the seen-set, each with the value put for it (in its
\* JSON encoding); a run over no file leaves the store empty.
C3_StoreIsSeenSet ==
    (CompileRun /\ pc \in {"compact", "close", "returned"}) =>
        /\ DOMAIN store = seenKeys
        /\ \A i \in DOMAIN batch :
               batch[i].type = "put"
                   => store[batch[i].key] = JsonValue(batch[i].value)
        /\ files = <<>> => store = EmptyStore

\* A run has removed a key the store held before it and has kept others.
C3_Witness ==
    /\ CompileRun
    /\ pc = "returned"
    /\ (DOMAIN storeAtOpen) \ (DOMAIN store) # {}
    /\ store # EmptyStore

\* The nodes of a document tree in the order the walker visits them, each
\* with the collection it is visited under.
RECURSIVE Nodes(_, _)
RECURSIVE NodesOfEntries(_, _, _)
RECURSIVE NodesOfElements(_, _, _)

Nodes(doc, collection) ==
    <<[doc |-> doc, collection |-> collection]>>
    \o NodesOfEntries(doc, HierarchyEntries(collection), 1)

NodesOfEntries(doc, entries, i) ==
    IF i > Len(entries) THEN <<>>
    ELSE LET e == entries[i]
             here == IF ~Has(doc, e.name) THEN <<>>
                     ELSE IF e.array
                     THEN IF ArrayIsArray(doc[e.name])
                          THEN NodesOfElements(doc[e.name], e.name, 1) ELSE <<>>
                     ELSE IF IsObject(doc[e.name])
                          THEN Nodes(doc[e.name], <<e.name>>)
                          ELSE <<>>
         IN  here \o NodesOfEntries(doc, entries, i + 1)

NodesOfElements(elements, name, j) ==
    IF j > Len(elements) THEN <<>>
    ELSE (IF IsObject(elements[j]) THEN Nodes(elements[j], <<name>>) ELSE <<>>)
         \o NodesOfElements(elements, name, j + 1)

\* The nodes of the documents of a sequence of source files.
RECURSIVE NodesOfFiles(_)
NodesOfFiles(fs) ==
    IF Len(fs) = 0 THEN <<>>
    ELSE Nodes(fs[1].doc, KeyCollection(FileKey(fs[1]))) \o NodesOfFiles(Tail(fs))

ChildId(v) == IF IsObject(v) /\ Has(v, "_id") THEN Str(v._id) ELSE Undefined

\* The fields the table gives a collection name.
FieldsOf(c) == IF c \in DOMAIN HIERARCHY THEN Range(HIERARCHY[c]) ELSE {}

\* The fields the table gives the collection a node is visited under.
SchemaFields(collection) ==
    IF Len(collection) = 1 THEN FieldsOf(collection[1]) ELSE {}

\* The value v is the node d in which references stand for the embedded
\* documents: no _key, every field of the schema there, the _ids of the
\* elements in their order for a collection ([] for a field that is not
\* there or is no sequence), the _id for a single document (null for none),
\* and every other field of the node as it is.
ReducedTo(v, d, collection) ==
    LET names == {e.name : e \in SchemaFields(collection)} IN
    /\ DOMAIN v = ((DOMAIN d) \ {"_key"}) \cup names
    /\ \A e \in SchemaFields(collection) :
           v[e.name] =
               IF e.array
               THEN IF Has(d, e.name) /\ ArrayIsArray(d[e.name])
                    THEN [j \in DOMAIN d[e.name] |-> ChildId(d[e.name][j])]
                    ELSE <<>>
               ELSE IF Has(d, e.name) /\ ~Falsy(d[e.name])
                    THEN ChildId(d[e.name])
                    ELSE Null
    /\ \A f \in (DOMAIN d) \ ({"_key"} \cup names) : v[f] = d[f]

\* The embedded documents of an unpacked node that is an object, each with
\* the name of its field: the truthy value of a singular field, the
\* elements of a collection.
ChildrenOf(doc) ==
    LET path == Split(KeyCollection(doc._key), ".")
        entries == HierarchyEntries(path[Len(path)])
    IN  UNION {IF ~Has(doc, entries[i].name) THEN {}
               ELSE IF entries[i].array
               THEN {[name |-> entries[i].name, at |-> j,
                      doc |-> doc[entries[i].name][j]] :
                        j \in DOMAIN doc[entries[i].name]}
               ELSE IF Falsy(doc[entries[i].name]) THEN {}
               ELSE {[name |-> entries[i].name, at |-> 0,
                      doc |-> doc[entries[i].name]]} : i \in DOMAIN entries}

\* The lookups of the walk below an unpacked node read from the store
\* under the key `from`: the id the stored parent refers to the child by,
\* the key looked up, and the child that came back.
RECURSIVE LookupsBelow(_, _)
LookupsBelow(doc, from) ==
    UNION {LET ref == IF c.at = 0 THEN store[from][c.name]
                      ELSE store[from][c.name][c.at]
               looked == <<"!">> \o KeyCollection(doc._key) \o <<".", c.name, "!">>
                         \o KeyId(doc._key) \o <<".">> \o ref.str
           IN  {[ref |-> ref.str, looked |-> looked, child |-> c.doc]}
               \cup LookupsBelow(c.doc, looked) : c \in ChildrenOf(doc)}

\* A node as a stored value: without its _key, and with the _id of each
\* child where the child was.
IdsOnly(doc, collection) ==
    LET entries == HierarchyEntries(collection)
        names == {entries[i].name : i \in DOMAIN entries}
        IsArray(n) == \E i \in DOMAIN entries : entries[i].name = n /\ entries[i].array
    IN  [f \in ((DOMAIN doc) \ {"_key"}) \cup names |->
            IF f \notin names THEN doc[f]
            ELSE IF IsArray(f)
                 THEN IF Has(doc, f) /\ ArrayIsArray(doc[f])
                      THEN [j \in DOMAIN doc[f] |-> ChildId(doc[f][j])]
                      ELSE <<>>
                 ELSE IF Has(doc, f) /\ ~Falsy(doc[f]) THEN ChildId(doc[f])
                      ELSE Null]

\* C4 as stated: every key a compile run puts is the _key of one of its
\* source files, and the value put holds the embedded documents themselves.
C4_CompilerInlines ==
    Packing =>
        \A i \in DOMAIN batch :
            batch[i].type = "put" =>
                /\ \E j \in 1..(fileIdx - 1) : FileKey(files[j]) = batch[i].key
                /\ \A f \in (DOMAIN batch[i].value) \cap ArrayFields :
                       \A j \in DOMAIN batch[i].value[f] :
                           IsObject(batch[i].value[f][j])

\* The strings a node holds where the table has an embedded document,
\* each as the name of its field.
StringsBelow(node) ==
    LET entries == HierarchyEntries(node.collection) IN
    {entries[i].name :
        i \in {k \in DOMAIN entries :
                  /\ Has(node.doc, entries[k].name)
                  /\ LET v == node.doc[entries[k].name] IN
                     IF ~entries[k].array THEN IsStr(v)
                     ELSE /\ ArrayIsArray(v)
                          /\ \E j \in DOMAIN v : IsStr(v[j])}}

\* The errors a file holds for a compile run: the store's invalid-key
\* error for an embedded document without _key and for a string in a field
\* whose documents embed nothing, a TypeError for a string in a field whose
\* documents embed others.
KeyFaults(f) ==
    LET nodes == Nodes(f.doc, KeyCollection(FileKey(f))) IN
    {"invalidKey" : i \in {k \in DOMAIN nodes : ~Has(nodes[k].doc, "_key")}}
    \cup UNION {{IF FieldsOf(name) = {} THEN "invalidKey" ELSE "type" :
                    name \in StringsBelow(nodes[i])} : i \in DOMAIN nodes}

\* The file has its own _key, so that the walk is entered.
Walkable(f) == ~f.malformed /\ IsObject(f.doc) /\ Has(f.doc, "_key")

\* C4, amended: a compile run (without a hook) puts one key for every node
\* of every file it got past, primary and embedded alike, in the walker's
\* order: the node's own _key, with the node as value in which every
\* schema field holds the _ids of the children, and once the batch is
\* written the store holds that value in its JSON encoding (the reference
\* to a child without _id is null in a list and left out for a single
\* document).  No file with an embedded document without _key, or with a
\* string in the place of one, is got past: the run throws on it, unless
\* it throws for a duplicate key before, and stores nothing; it throws the
\* store's invalid-key error for a document without _key and for a string
\* in a field whose documents embed nothing, and a TypeError for a string
\* in a field whose documents embed others.
C4_OneKeyPerNode ==
    /\ (Packing /\ ~options.transformEntry) =>
           LET nodes == NodesOfFiles(SubSeq(files, 1, fileIdx - 1)) IN
           /\ \A i \in DOMAIN nodes : Has(nodes[i].doc, "_key")
           /\ \A j \in 1..(fileIdx - 1) : KeyFaults(files[j]) = {}
           /\ Puts(batch) =
                  [i \in DOMAIN nodes |->
                      Put(nodes[i].doc._key,
                          IdsOnly(nodes[i].doc, nodes[i].collection))]
           /\ pc \in {"compact", "close", "returned"} =>
                  \A i \in DOMAIN nodes :
                      store[nodes[i].doc._key]
                          = JsonValue(IdsOnly(nodes[i].doc, nodes[i].collection))
    /\ (CompileRun /\ pc = "thrown" /\ error.kind = "invalidKey") =>
           /\ store = storeAtOpen
           /\ "invalidKey" \in KeyFaults(files[fileIdx])
    /\ (/\ CompileRun
        /\ ~options.transformEntry
        /\ pc = "thrown"
        /\ fileIdx \in DOMAIN files
        /\ Walkable(files[fileIdx])
        /\ KeyFaults(files[fileIdx]) # {}) =>
           /\ store = storeAtOpen
           /\ error.kind \in KeyFaults(files[fileIdx]) \cup {"duplicate"}

\* hero is compiled: the store holds the actor with the item's _id in
\* items, and the item under its own key.
C4_Witness ==
    /\ CompileRun
    /\ ~options.transformEntry
    /\ pc = "returned"
    /\ hero \in Range(files)
    /\ hero.doc.items[1]._key \in DOMAIN store
    /\ store[hero.doc._key].items = <<Str(<<"i1">>)>>

\* A document without the _key of any of its nodes.
RECURSIVE StripKeys(_)
StripKeys(v) ==
    IF ~IsObject(v) THEN v
    ELSE [f \in (DOMAIN v) \ {"_key"} |->
             IF f \in SingleFields THEN StripKeys(v[f])
             ELSE IF f \in ArrayFields
                  THEN [j \in DOMAIN v[f] |-> StripKeys(v[f][j])]
                  ELSE v[f]]

\* Every node of the tree carries an _id and the _key composed from its
\* position: the collection path and the id path from the root.
RECURSIVE WellKeyed(_, _, _, _)
WellKeyed(doc, sublevelPrefix, idPrefix, collection) ==
    /\ IsObject(doc)
    /\ Has(doc, "_key")
    /\ Has(doc, "_id")
    /\ LET sublevel == keyJoin(<<sublevelPrefix, collection>>)
           id == keyJoin(<<idPrefix, doc._id>>)
           entries == HierarchyEntries(collection)
       IN  /\ doc._key = <<"!">> \o sublevel \o <<"!">> \o id
           /\ \A i \in DOMAIN entries :
                  Has(doc, entries[i].name) =>
                      IF entries[i].array
                      THEN \A j \in DOMAIN doc[entries[i].name] :
                               WellKeyed(doc[entries[i].name][j], sublevel, id,
                                         <<entries[i].name>>)
                      ELSE \/ Falsy(doc[entries[i].name])
                           \/ WellKeyed(doc[entries[i].name], sublevel, id,
                                        <<entries[i].name>>)

\* The tree with every schema field it lacks filled in: [] for an embedded
\* collection, null for a single embedded document.
RECURSIVE Normalize(_, _)
Normalize(doc, collection) ==
    LET entries == HierarchyEntries(collection)
        names == {entries[i].name : i \in DOMAIN entries}
        IsArray(n) == \E i \in DOMAIN entries : entries[i].name = n /\ entries[i].array
    IN  [f \in (DOMAIN doc) \cup names |->
            IF f \notin names THEN doc[f]
            ELSE IF IsArray(f)
                 THEN IF Has(doc, f)
                      THEN [j \in DOMAIN doc[f] |-> Normalize(doc[f][j], <<f>>)]
                      ELSE <<>>
                 ELSE IF Has(doc, f) /\ ~Falsy(doc[f]) THEN Normalize(doc[f], <<f>>)
                      ELSE Null]

\* An extraction without hooks has returned, of a store compiled without
\* hooks from files of the format extracted to.
RoundTripFromDocs ==
    /\ ExtractRun
    /\ pc = "returned"
    /\ ~options.transformEntry
    /\ ~options.transformName
    /\ ~options.transformFolderName
    /\ packedFrom.known
    /\ \A f \in packedFrom.files : ExtName(f.path) = <<".", Ext(options.yaml)>>

\* The tree of the file holds no string where the table has an embedded
\* document.
Conforming(f) ==
    LET nodes == Nodes(f.doc, KeyCollection(FileKey(f))) IN
    \A i \in DOMAIN nodes : StringsBelow(nodes[i]) = {}

\* C5 as stated: no document tree that conforms to the schema fails to
\* compile for want of a key, and every document compiled comes back from
\* the extraction equal to itself but for the key field.
C5_RoundTripAsStated ==
    /\ ~(/\ CompileRun
         /\ pc = "thrown"
         /\ error.kind = "invalidKey"
         /\ Conforming(files[fileIdx]))
    /\ RoundTripFromDocs =>
           \A f \in packedFrom.files :
               \E i \in DOMAIN written :
                   StripKeys(destDir.files[FilePath(written[i].name)])
                       = StripKeys(f.doc)

\* C5, amended: every primary document compiled whose nodes all carry the
\* _key of their position comes back from the extraction, under its key,
\* as the document itself with its missing schema fields filled in ([] and
\* null).
C5_RoundTripOfKeyedDocs ==
    RoundTripFromDocs =>
        \A f \in packedFrom.files :
            (/\ Segments(FileKey(f)) = 1
             /\ WellKeyed(f.doc, <<>>, <<>>, KeyCollection(FileKey(f))))
                => \E i \in DOMAIN written :
                       /\ written[i].key = f.doc._key
                       /\ destDir.files[FilePath(written[i].name)]
                              = Normalize(f.doc, KeyCollection(FileKey(f)))

\* The scene (a token, its delta, the delta's effect) was compiled and has
\* been extracted.
C5_Witness ==
    /\ RoundTripFromDocs
    /\ scene \in packedFrom.files
    /\ \E i \in DOMAIN written :
           /\ written[i].key = scene.doc._key
           /\ Has(destDir.files[FilePath(written[i].name)].tokens[1].delta,
                  "effects")

\* The store every reference of which resolves and every embedded key of
\* which is referred to by its parent: each value holds its own _id and
\* every schema field (ids, an id or null), each id in one of them is the
\* last id of a key of the store, and each key with a collection path of
\* several segments is named in the field of its parent.
Closed(S) ==
    \A k \in DOMAIN S :
        LET path == Split(KeyCollection(k), ".")
            ids == Split(KeyId(k), ".")
            n == Len(path)
            v == S[k]
            entries == HierarchyEntries(path[n])
            Child(name, id) ==
                <<"!">> \o KeyCollection(k) \o <<".", name, "!">> \o KeyId(k)
                \o <<".">> \o id
            parent == <<"!">> \o Join(SubSeq(path, 1, n - 1), ".") \o <<"!">>
                      \o Join(SubSeq(ids, 1, n - 1), ".")
        IN  /\ Len(ids) = n
            /\ Has(v, "_id")
            /\ v._id = ids[n]
            /\ \A i \in DOMAIN entries :
                   /\ Has(v, entries[i].name)
                   /\ IF entries[i].array
                      THEN \A j \in DOMAIN v[entries[i].name] :
                               /\ IsStr(v[entries[i].name][j])
                               /\ Child(entries[i].name, v[entries[i].name][j].str)
                                      \in DOMAIN S
                      ELSE \/ IsNull(v[entries[i].name])
                           \/ /\ IsStr(v[entries[i].name])
                              /\ Child(entries[i].name, v[entries[i].name].str)
                                     \in DOMAIN S
            /\ n > 1 =>
                   /\ parent \in DOMAIN S
                   /\ Has(S[parent], path[n][1])
                   /\ IF path[n][1] \in ArrayFields
                      THEN Str(ids[n]) \in Range(S[parent][path[n][1]])
                      ELSE S[parent][path[n][1]] = Str(ids[n])

\* A compile run without hooks has returned whose files were all the files
\* of an extraction, made without hooks, of the store extractedFrom.store.
FromExtraction ==
    /\ CompileRun
    /\ pc = "returned"
    /\ ~options.transformEntry
    /\ extractedFrom.known
    /\ ~extractedFrom.options.transformEntry
    /\ ~extractedFrom.options.transformName
    /\ ~extractedFrom.options.transformFolderName
    /\ {f.path : f \in Range(files)} = DOMAIN destDir.files
    /\ \A f \in Range(files) : f.doc = destDir.files[f.path]

\* C6 as stated: the store compiled from all the files of an extraction of
\* S has the keys of S and, under every primary key, the value S has.
C6_RoundTripAsStated ==
    FromExtraction =>
        /\ DOMAIN store = DOMAIN extractedFrom.store
        /\ \A k \in DOMAIN store :
               Segments(k) = 1 => store[k] = extractedFrom.store[k]

\* C6, amended: when every reference of S resolves, every embedded key of
\* S is referred to by its parent and every primary document got a file of
\* its own, the store compiled from all the files of the extraction is S.
C6_RoundTripOfClosedStore ==
    (/\ FromExtraction
     /\ Closed(extractedFrom.store)
     /\ Cardinality(DOMAIN destDir.files)
            = Cardinality({k \in DOMAIN extractedFrom.store : Segments(k) = 1}))
        => store = extractedFrom.store

\* A store with embedded keys has been extracted and compiled again.
C6_Witness ==
    /\ FromExtraction
    /\ Closed(extractedFrom.store)
    /\ \E k \in DOMAIN extractedFrom.store : Segments(k) > 2
    /\ store = extractedFrom.store

\* C7: an extraction writes files, and starts the walker, only for keys
\* whose collection path has one segment.
C7_PrimaryRootsOnly ==
    ExtractRun =>
        /\ \A i \in DOMAIN written : Segments(written[i].key) = 1
        /\ \A i \in DOMAIN walked : Segments(walked[i]) = 1

\* An extraction of a store with embedded keys has written a file and has
\* been through every key.
C7_Witness ==
    /\ ExtractRun
    /\ pc = "returned"
    /\ Len(written) > 0
    /\ \E k \in DOMAIN store : Segments(k) > 1

\* Every reference below the key resolves to a key of the store.
RECURSIVE Resolved(_, _)
Resolved(db, key) ==
    /\ key \in DOMAIN db
    /\ LET path == Split(KeyCollection(key), ".")
           v == db[key]
           entries == HierarchyEntries(path[Len(path)])
           Child(name, id) ==
               <<"!">> \o KeyCollection(key) \o <<".", name, "!">> \o KeyId(key)
               \o <<".">> \o id
       IN  \A i \in DOMAIN entries :
               Has(v, entries[i].name) =>
                   IF entries[i].array
                   THEN \A j \in DOMAIN v[entries[i].name] :
                            IsStr(v[entries[i].name][j]) =>
                                Resolved(db, Child(entries[i].name,
                                                   v[entries[i].name][j].str))
                   ELSE IsStr(v[entries[i].name]) =>
                            Resolved(db, Child(entries[i].name,
                                               v[entries[i].name].str))

\* C8 as stated: an extraction writes a file only for a document every
\* embedded reference of which, at any depth, resolves in the store; with
\* a reference that does not, the run fails before the file is written.
C8_MissingChildFails ==
    ExtractRun => \A i \in DOMAIN written : Resolved(store, written[i].key)

\* The pre-pass of an extraction with folders has ended.
FoldersBuilt ==
    /\ ExtractRun
    /\ options.folders
    /\ pc \in {"extracting", "returned"} \/ (pc = "thrown" /\ Len(walked) > 0)

\* C9 as stated: with folders enabled, the path of a folder is the path of
\* its parent, "/" and its own name when the parent reference is in the
\* index, and its own name when it is not.
C9_PathsConcatenated ==
    FoldersBuilt
        => \A id \in DOMAIN foldersMap :
               foldersMap[id].path =
                   IF foldersMap[id].folder \in DOMAIN foldersMap
                   THEN foldersMap[foldersMap[id].folder].path \o <<"/">>
                        \o foldersMap[id].name
                   ELSE foldersMap[id].name

\* The names of a folder's ancestors in the index, from the root-most
\* down, and its own, with "/" between them; no more of them than the index
\* has folders.
RECURSIVE ChainNames(_, _, _)
ChainNames(map, id, steps) ==
    IF map[id].folder \in DOMAIN map /\ steps < Cardinality(DOMAIN map)
    THEN ChainNames(map, map[id].folder, steps + 1) \o <<"/">> \o map[id].name
    ELSE map[id].name

\* What path.join makes of the names of a folder's chain: the name as it
\* stands for a folder whose parent is not in the index, and the
\* concatenation normalised for any other.
ChainPath(map, id) ==
    IF map[id].folder \in DOMAIN map
    THEN PathNormalize(ChainNames(map, id, 1))
    ELSE map[id].name

\* A path of plain segments: none of them empty, "." or "..".
PlainPath(p) ==
    \A seg \in Range(Split(p, "/")) : seg \notin {<<>>, <<".">>, <<".", ".">>}

\* C9, amended: the path of a folder whose parent is not in the index is
\* its name as it stands; the path of any other is the names of its chain
\* put together by path.join, whatever the order of the entries: the
\* concatenation of the names with "/" between them, normalised (a "."
\* dropped, a ".." taking the segment before it away or staying in front
\* when there is none).  Where that concatenation is a path of plain
\* segments it is the path.
C9_FolderPaths ==
    FoldersBuilt
        => \A id \in DOMAIN foldersMap :
               LET chain == ChainNames(foldersMap, id, 1)
               IN  /\ foldersMap[id].path = ChainPath(foldersMap, id)
                   /\ PlainPath(chain) => foldersMap[id].path = chain

\* The chain fD in fE in fF, the key of each folder sorting before the
\* keys of its ancestors.
C9_Witness ==
    /\ ExtractRun
    /\ options.folders
    /\ pc = "extracting"
    /\ Str(<<"fD">>) \in DOMAIN foldersMap
    /\ KeyLess(<<"!", "folders", "!", "fD">>, <<"!", "folders", "!", "fE">>)
    /\ KeyLess(<<"!", "folders", "!", "fE">>, <<"!", "folders", "!", "fF">>)
    /\ foldersMap[Str(<<"fD">>)].path =
           <<"F", "_", "fF", "/", "E", "_", "fE", "/", "D", "_", "fD">>

\* C10: the step on which extractPack throws the configuration error
\* leaves the destination directory as it was, opens no handle and reads
\* nothing of the store.
C10_ConfigErrorFirst ==
    [][(pc = "idle" /\ error'.kind = "config")
          => /\ pc' = "thrown"
             /\ destDir' = destDir
             /\ dbOpen' = dbOpen
             /\ store' = store
             /\ cursor' = cursor]_vars

\* extractPack was called with clean and without documentType on a
\* destination that holds files, and they are still there.
C10_Witness ==
    /\ ExtractRun
    /\ pc = "thrown"
    /\ error.kind = "config"
    /\ options.clean
    /\ ~dbOpen
    /\ DOMAIN destDir.files # {}

\* The files a compile run got past, among the first n, that the hook did
\* not discard.
RECURSIVE KeptUpTo(_)
KeptUpTo(n) ==
    IF n = 0 THEN <<>>
    ELSE KeptUpTo(n - 1) \o (IF n \in Range(skipped) THEN <<>> ELSE <<files[n]>>)

\* The keys of the nodes of the files kept so far, in the walker's order.
KeptKeys ==
    LET nodes == NodesOfFiles(KeptUpTo(fileIdx - 1))
    IN  [i \in DOMAIN nodes |-> StrField(nodes[i].doc, "_key")]

\* The document the walker makes of the value under a primary key.
Unpacked(key) ==
    applyHierarchy("unpackDoc", store[key], KeyCollection(key),
                   [db |-> store, seenKeys |-> {}, batch |-> <<>>,
                    err |-> NoError, visits |-> <<>>]).doc

\* The keys the main loop of an extraction has been through without
\* failing, less those the hook discarded.
Passed ==
    LET done == IF pc = "thrown" /\ Len(walked) > 0
                THEN SubSeq(walked, 1, Len(walked) - 1) ELSE walked
    IN  SelectSeq(done, LAMBDA k : k \notin Range(dropped))

\* What a discarded file or entry leaves behind, in compile and in extract:
\* nothing of its own.
DiscardedLeavesNothing ==
    /\ CompileRun =>
           LET kept == KeptKeys
               puts == Puts(batch)
           IN  /\ \A i \in Range(skipped) : i < fileIdx
               /\ pc = "thrown"
                      \/ [i \in DOMAIN puts |-> puts[i].key] = kept
               /\ Packing => seenKeys = Range(kept)
               /\ pc \in {"compact", "close", "returned"}
                      => DOMAIN store = Range(kept)
               /\ (pc = "thrown" /\ error.kind = "duplicate")
                      => error.subject \in Range(kept)
                             \cup {StrField(n.doc, "_key") :
                                      n \in Range(NodesOfFiles(<<files[fileIdx]>>))}
    /\ (ExtractRun /\ pc \in {"extracting", "returned", "thrown"}) =>
           /\ [i \in DOMAIN written |-> written[i].key] = Passed
           /\ \A i \in DOMAIN written : written[i].key \notin Range(dropped)

\* C11 as stated: a discarded document leaves nothing behind, and every
\* other document of an extraction is written as if the discarded one were
\* not in the store: a document whose folder is not among the folders
\* that were not discarded is written at the top of the destination.
C11_DiscardedAsAbsent ==
    /\ DiscardedLeavesNothing
    /\ (/\ ExtractRun
        /\ pc = "returned"
        /\ options.folders
        /\ ~options.transformName
        /\ ~options.transformFolderName) =>
           LET rest == (DOMAIN store) \ Range(dropped)
               index == {Ref(store[k], "_id") : k \in {fk \in rest : IsFolderKey(fk)}}
           IN  \A i \in DOMAIN written :
                   (/\ ~IsFolderKey(written[i].key)
                    /\ Ref(store[written[i].key], "folder") \notin index)
                       => ~Includes(written[i].name, "/")

\* The index holds every folder of the store with the parent the store
\* gives it.
IndexOfStore ==
    /\ DOMAIN foldersMap
           = {Ref(store[k], "_id") : k \in {fk \in DOMAIN store : IsFolderKey(fk)}}
    /\ \A k \in DOMAIN store :
           IsFolderKey(k) => foldersMap[Ref(store[k], "_id")].folder
                                 = Ref(store[k], "folder")

\* Whether sequence p is the beginning of sequence s.
StartsWith(s, p) == Len(p) <= Len(s) /\ SubSeq(s, 1, Len(p)) = p

\* The written document's folder reference is in the folder index.
InFolder(w) == Ref(store[w.key], "folder") \in DOMAIN foldersMap

\* The path of the folder the written document refers to, with the
\* separator after it.
FolderPrefix(w) == foldersMap[Ref(store[w.key], "folder")].path \o <<"/">>

\* The written document is a folder of the index.
OwnFolder(w) ==
    IsFolderKey(w.key) /\ Ref(store[w.key], "_id") \in DOMAIN foldersMap

\* The name the default makes for a written document before the path of
\* its folder is put in front: "_Folder" in its own directory for a folder
\* of the index, the name and the id, or the key, for any other document.
DefaultName(w) ==
    LET doc == store[w.key]
        ext == <<".", Ext(options.yaml)>>
        parts == Split(w.key, "!")
    IN  IF OwnFolder(w)
        THEN foldersMap[Ref(doc, "_id")].name \o <<"/", "_", "Folder">> \o ext
        ELSE IF StrField(doc, "name") # <<>>
        THEN getSafeFilename(doc.name) \o <<"_">>
             \o (IF Len(parts) >= 3 THEN parts[3] ELSE <<"undefined">>) \o ext
        ELSE w.key \o ext

\* The name of a written document that transformName did not name: the
\* default name, below the path of its folder when that is in the index,
\* put together by path.join.
NameByDefault(w) ==
    IF InFolder(w) THEN PathNormalize(FolderPrefix(w) \o DefaultName(w))
    ELSE IF OwnFolder(w) THEN PathNormalize(DefaultName(w))
    ELSE DefaultName(w)

\* The name transformName returned for a written document: "./" and the
\* file of the _id, or that file below the folder path it was handed
\* ("loose" without one).
NameByHook(w) ==
    (IF w.naming = "name" THEN <<".">>
     ELSE IF InFolder(w) THEN foldersMap[Ref(store[w.key], "folder")].path
     ELSE <<"loose">>)
    \o <<"/">> \o StrField(store[w.key], "_id") \o <<".", Ext(options.yaml)>>

\* The name the default gives a folder in the index.
FolderName(k) ==
    IF StrField(store[k], "name") # <<>>
    THEN getSafeFilename(store[k].name) \o <<"_">>
         \o (IF Has(store[k], "_id") THEN store[k]._id ELSE <<"undefined">>)
    ELSE k

\* The document d is the one the store holds under the key: it has the
\* fields of the stored value and a _key, and in every field of the schema
\* the documents the store holds under the keys of the stored references,
\* each key made of d's _key, the field and the reference ([] where the
\* stored value has no list, null where it has no reference, and no field
\* where the store has nothing under the key of a single reference).
RECURSIVE HeldUnder(_, _)
HeldUnder(d, key) ==
    /\ key \in DOMAIN store
    /\ LET v == store[key]
           cs == Split(KeyCollection(key), ".")
           fields == SchemaFields(cs[Len(cs)])
           names == {e.name : e \in fields}
           Child(name, ref) ==
               <<"!">> \o KeyCollection(d._key) \o <<".", name, "!">>
               \o KeyId(d._key) \o <<".">> \o ref.str
       IN  /\ (DOMAIN d) \ names = ((DOMAIN v) \ names) \cup {"_key"}
           /\ \A f \in (DOMAIN v) \ (names \cup {"_key"}) : d[f] = v[f]
           /\ \A e \in fields :
                  IF e.array
                  THEN IF Has(v, e.name) /\ ArrayIsArray(v[e.name])
                       THEN /\ Has(d, e.name)
                            /\ Len(d[e.name]) = Len(v[e.name])
                            /\ \A j \in DOMAIN v[e.name] :
                                   /\ IsStr(v[e.name][j])
                                   /\ HeldUnder(d[e.name][j],
                                                Child(e.name, v[e.name][j]))
                       ELSE Has(d, e.name) /\ d[e.name] = <<>>
                  ELSE IF Has(v, e.name) /\ ~Falsy(v[e.name])
                       THEN /\ IsStr(v[e.name])
                            /\ IF Child(e.name, v[e.name]) \in DOMAIN store
                               THEN /\ Has(d, e.name)
                                    /\ HeldUnder(d[e.name],
                                                 Child(e.name, v[e.name]))
                               ELSE ~Has(d, e.name)
                       ELSE Has(d, e.name) /\ d[e.name] = Null

\* C11, amended: a discarded document leaves nothing behind (no key seen,
\* no put, no error, no key in the store unless a kept file declares it;
\* no file written), and every other document of an extraction is written
\* as it is when the hook discards nothing: the folder index holds every
\* folder of the store, the discarded ones among them, each under its
\* default name and the path of its chain; every written document has the
\* name that index gives it, and its file holds the document the store
\* holds under its key.
C11_DiscardedIsSkipped ==
    /\ DiscardedLeavesNothing
    /\ (ExtractRun /\ (pc \in {"extracting", "returned"} \/ Len(walked) > 0)) =>
           /\ (options.folders /\ ~options.transformFolderName) =>
                  /\ IndexOfStore
                  /\ \A k \in DOMAIN store :
                         IsFolderKey(k) =>
                             LET id == Ref(store[k], "_id") IN
                             /\ foldersMap[id].name = FolderName(k)
                             /\ foldersMap[id].path = ChainPath(foldersMap, id)
           /\ \A i \in DOMAIN written :
                  LET w == written[i] IN
                  /\ w.name = IF w.naming = "default" THEN NameByDefault(w)
                              ELSE NameByHook(w)
                  /\ (\A j \in DOMAIN written :
                          j > i => FilePath(written[j].name) # FilePath(w.name))
                         => HeldUnder(destDir.files[FilePath(w.name)], w.key)

\* The store holds the three folders without the actor filed in them: the
\* compile run that wrote it discarded the actor, the last of its four
\* files.  The extraction with folders that followed discarded folder fB
\* and has written folder fC, which lies in it, below the directories of
\* fA and fB; fB has no file of its own.
C11_Witness ==
    /\ ExtractRun
    /\ pc = "returned"
    /\ options.transformEntry
    /\ DOMAIN store = {folderA.doc._key, folderB.doc._key, folderC.doc._key}
    /\ mage.doc._key \notin DOMAIN store
    /\ <<"!", "folders", "!", "fB">> \in Range(dropped)
    /\ \E i \in DOMAIN written :
           /\ written[i].key = <<"!", "folders", "!", "fC">>
           /\ written[i].name =
                  <<"A", "_", "fA", "/", "B", "_", "fB", "/", "C", "_", "fC",
                    "/", "_", "Folder", ".", "json">>
           /\ FilePath(written[i].name) \in DOMAIN destDir.files
    /\ \A i \in DOMAIN written :
           written[i].key # <<"!", "folders", "!", "fB">>

\* C12 as stated: every document written whose folder is in the index is
\* written under that folder's path, whether transformName or the default
\* gave it its name.
C12_AlwaysPrefixed ==
    ExtractRun =>
        \A i \in DOMAIN written :
            InFolder(written[i]) => StartsWith(written[i].name, FolderPrefix(written[i]))

\* C12, amended: a document whose folder is in the index is written under
\* that folder's path when the default gave it its name: at the path that
\* path.join makes of the folder's path and the default name, which is the
\* folder's path, "/" and the default name where these make a path of
\* plain segments.  The name that transformName returned is the path as it
\* stands, with nothing put in front of it; and a document whose folder is
\* not in the index gets no directory but, if it is a folder of the index,
\* its own.  The file is where path.join(dest, name) leads.
C12_DefaultNamesPrefixed ==
    ExtractRun =>
        \A i \in DOMAIN written :
            LET w == written[i]
                plain == FolderPrefix(w) \o DefaultName(w)
            IN  /\ FilePath(w.name) \in DOMAIN destDir.files
                /\ FilePath(w.name) = PathNormalize(w.name)
                /\ IF w.naming # "default"
                   THEN w.name = NameByHook(w)
                   ELSE IF InFolder(w)
                   THEN /\ w.name = PathNormalize(plain)
                        /\ PlainPath(plain) =>
                               /\ w.name = plain
                               /\ StartsWith(w.name, FolderPrefix(w))
                               /\ FilePath(w.name) = w.name
                   ELSE /\ w.name = NameByDefault(w)
                        /\ PlainPath(DefaultName(w)) => w.name = DefaultName(w)
                        /\ OwnFolder(w) \/ ~Includes(w.name, "/")

\* Of two documents in folders of the index, one was named by
\* transformName and one, two folders deep, by the default.
C12_Witness ==
    /\ ExtractRun
    /\ options.folders
    /\ \E i, j \in DOMAIN written :
           /\ written[i].naming # "default"
           /\ InFolder(written[i])
           /\ written[j].naming = "default"
           /\ InFolder(written[j])
           /\ Cardinality({n \in DOMAIN FolderPrefix(written[j]) :
                              FolderPrefix(written[j])[n] = "/"}) > 2

\* C13 as stated: a run that has opened the store has closed it by the
\* time it returns or throws, whatever made it throw.
C13_ClosedAtEnd ==
    (pc \in {"returned", "thrown"} /\ Len(dbCalls) > 0)
        => /\ dbCalls[Len(dbCalls)] = "close"
           /\ ~dbOpen

\* C14 as stated: when a compile run throws on a source file (a parse, a
\* hook or a duplicate-key failure), the path of that file reaches the
\* caller, in the error thrown or at least on the console, whatever the
\* log option is.
C14_ErrorNamesFile ==
    (/\ CompileRun
     /\ pc = "thrown"
     /\ error.kind \in {"parse", "transform", "duplicate"})
        => \/ error.subject = files[fileIdx].path
           \/ \E i \in DOMAIN console :
                  /\ console[i].level = "error"
                  /\ console[i].subject = files[fileIdx].path

\* The context a visitor returns for a node: packDoc returns none (the
\* children get the empty one), unpackDoc the node's collection path and id
\* path.
ContextOf(fn, collection, id, ctx) ==
    IF fn = "packDoc" THEN NoOptions
    ELSE [sublevelPrefix |-> keyJoin(<<ctx.sublevelPrefix, collection>>),
          idPrefix |-> keyJoin(<<ctx.idPrefix, id>>)]

\* The visits of a pre-order walk of a document tree: the node, then, field
\* by field of the schema, the elements of a collection in their order or
\* the single document that is there (not null, not undefined); each with
\* the context of its parent.
RECURSIVE VisitsOf(_, _, _, _, _)
RECURSIVE VisitsOfEntries(_, _, _, _, _, _)
RECURSIVE VisitsOfElements(_, _, _, _, _, _)

VisitsOf(fn, doc, collection, ctx, depth) ==
    <<[collection |-> collection, id |-> StrField(doc, "_id"),
       options |-> ctx, depth |-> depth]>>
    \o VisitsOfEntries(fn, doc, HierarchyEntries(collection), 1,
                       ContextOf(fn, collection, StrField(doc, "_id"), ctx),
                       depth)

VisitsOfEntries(fn, doc, entries, i, context, depth) ==
    IF i > Len(entries) THEN <<>>
    ELSE LET e == entries[i]
             here == IF ~Has(doc, e.name) THEN <<>>
                     ELSE IF e.array
                     THEN IF ArrayIsArray(doc[e.name])
                          THEN VisitsOfElements(fn, doc[e.name], e.name, 1,
                                                context, depth)
                          ELSE <<>>
                     ELSE IF Falsy(doc[e.name]) THEN <<>>
                     ELSE VisitsOf(fn, doc[e.name], <<e.name>>, context, depth + 1)
         IN  here \o VisitsOfEntries(fn, doc, entries, i + 1, context, depth)

VisitsOfElements(fn, elements, name, j, context, depth) ==
    IF j > Len(elements) THEN <<>>
    ELSE VisitsOf(fn, elements[j], <<name>>, context, depth + 1)
         \o VisitsOfElements(fn, elements, name, j + 1, context, depth)

\* The visit of the parent of the i-th visit of a log: the last one before
\* it that is one level up.
ParentVisit(log, i) ==
    CHOOSE j \in 1..(i - 1) :
        /\ log[j].depth = log[i].depth - 1
        /\ \A k \in (j + 1)..(i - 1) : log[k].depth >= log[i].depth

\* Every visit but the first comes after the visit of its parent and has
\* the context returned for it.
ParentsFirst(fn, log) ==
    \A i \in DOMAIN log :
        IF i = 1 THEN log[i].depth = 1 /\ log[i].options = NoOptions
        ELSE /\ \E j \in 1..(i - 1) :
                    /\ log[j].depth = log[i].depth - 1
                    /\ \A k \in (j + 1)..(i - 1) : log[k].depth >= log[i].depth
             /\ LET parent == log[ParentVisit(log, i)]
                IN  log[i].options = ContextOf(fn, parent.collection, parent.id,
                                               parent.options)

\* A compile run has just packed a file.
JustPacked == Packing /\ fileIdx > 1 /\ (fileIdx - 1) \notin Range(skipped)

\* An extraction has just been through the walk of a primary document
\* without failing.
JustUnpacked == ExtractRun /\ pc \in {"extracting", "returned"} /\ Len(walked) > 0

\* C15: the visitor is called on a node before it is called on any of the
\* node's children, each child with the context returned for its parent
\* (the first node with the empty one); the visits are those of the
\* pre-order walk of the document: the elements of a collection once each
\* in their order, a single embedded document if it is there and not null,
\* nothing for a schema field the document lacks.
C15_PreOrder ==
    /\ JustPacked =>
           /\ ParentsFirst("packDoc", packVisits)
           /\ packVisits = VisitsOf("packDoc", files[fileIdx - 1].doc,
                                    KeyCollection(FileKey(files[fileIdx - 1])),
                                    NoOptions, 1)
    /\ JustUnpacked =>
           /\ ParentsFirst("unpackDoc", unpackVisits)
           /\ unpackVisits = VisitsOf("unpackDoc", Unpacked(walked[Len(walked)]),
                                      KeyCollection(walked[Len(walked)]),
                                      NoOptions, 1)

\* The band is walked in an extraction: the actor, its second item i2, that
\* item's effect with the item's context, then the first item i1; the
\* actor has no effects of its own.
C15_Witness ==
    /\ JustUnpacked
    /\ [i \in DOMAIN unpackVisits |-> unpackVisits[i].id]
           = << <<"q1">>, <<"i2">>, <<"e1">>, <<"i1">> >>
    /\ [i \in DOMAIN unpackVisits |-> unpackVisits[i].depth] = <<1, 2, 3, 2>>
    /\ unpackVisits[3].options
           = [sublevelPrefix |-> <<"actors", ".", "items">>,
              idPrefix |-> <<"q1", ".", "i2">>]
    /\ unpackVisits[4].options
           = [sublevelPrefix |-> <<"actors">>, idPrefix |-> <<"q1">>]

\* The node, visited at level n under the collection name, below the node
\* with key above (<<>> at level 1), has the key of its position, and so
\* has every node below it.
RECURSIVE KeyedByPosition(_, _, _, _)
KeyedByPosition(doc, name, above, n) ==
    LET cs == Split(KeyCollection(doc._key), ".")
        ids == Split(KeyId(doc._key), ".")
    IN  /\ doc._key = <<"!">> \o Join(cs, ".") \o <<"!">> \o Join(ids, ".")
        /\ Len(cs) = n
        /\ Len(ids) = n
        /\ cs[n] = name
        /\ ids[n] = doc._id
        /\ n > 1 => /\ SubSeq(cs, 1, n - 1) = Split(KeyCollection(above), ".")
                    /\ SubSeq(ids, 1, n - 1) = Split(KeyId(above), ".")
        /\ \A c \in ChildrenOf(doc) :
               StrField(c.doc, "_id") # <<>>
                   => KeyedByPosition(c.doc, <<c.name>>, doc._key, n + 1)

\* The primary document the extraction has just unpacked, with ids that
\* are not empty.
LastUnpacked == Unpacked(walked[Len(walked)])

\* C16 as stated: every node unpacked at level n has the key of its
\* position, n collection segments and n id segments, those of its parent
\* and then its own; and the key a child was looked up under is the key
\* the child is assigned.
C16_LookupKeyIsAssigned ==
    JustUnpacked =>
        LET doc == LastUnpacked IN
        StrField(doc, "_id") # <<>> =>
            /\ KeyedByPosition(doc, KeyCollection(walked[Len(walked)]), <<>>, 1)
            /\ \A l \in LookupsBelow(doc, walked[Len(walked)]) :
                   l.child._key = l.looked

\* C16, amended: every node unpacked at level n has the key of its
\* position; the key a child was looked up under ends in the id its parent
\* holds for it, the key it is assigned in its own _id, the two keys being
\* otherwise the same: they are equal when, and only when, the child's _id
\* is the id the parent holds.
C16_KeyedByPosition ==
    JustUnpacked =>
        LET doc == LastUnpacked IN
        StrField(doc, "_id") # <<>> =>
            /\ KeyedByPosition(doc, KeyCollection(walked[Len(walked)]), <<>>, 1)
            /\ \A l \in LookupsBelow(doc, walked[Len(walked)]) :
                   StrField(l.child, "_id") # <<>> =>
                       /\ KeyCollection(l.child._key) = KeyCollection(l.looked)
                       /\ Len(KeyId(l.child._key)) = Len(KeyId(l.looked))
                       /\ \A k \in 1..(Len(KeyId(l.looked)) - 1) :
                              KeyId(l.child._key)[k] = KeyId(l.looked)[k]
                       /\ (l.child._key = l.looked) <=> (l.child._id = l.ref)

\* The scene has been unpacked: the effect, at level 4, has a key of four
\* collection segments and four id segments.
C16_Witness ==
    /\ JustUnpacked
    /\ walked[Len(walked)] = <<"!", "scenes", "!", "s1">>
    /\ \E l \in LookupsBelow(LastUnpacked, walked[Len(walked)]) :
           l.child._key = <<"!", "scenes", ".", "tokens", ".", "delta", ".",
                            "effects", "!", "s1", ".", "t1", ".", "d1", ".", "e1">>

\* A sequence of collection names each of which the table embeds in the
\* one before it.
SchemaPath(p) ==
    \A i \in 1..(Len(p) - 1) : \E e \in FieldsOf(p[i]) : e.name = p[i + 1]

Max(S) == CHOOSE m \in S : \A n \in S : n <= m

\* The number of levels of a document tree, along the fields of the table.
RECURSIVE TreeDepth(_, _)
TreeDepth(doc, c) ==
    1 + Max({0} \cup UNION {
            IF ~Has(doc, e.name) THEN {}
            ELSE IF e.array
            THEN IF ArrayIsArray(doc[e.name])
                 THEN {TreeDepth(doc[e.name][j], e.name) : j \in DOMAIN doc[e.name]}
                 ELSE {}
            ELSE IF Falsy(doc[e.name]) THEN {}
            ELSE {TreeDepth(doc[e.name], e.name)} : e \in FieldsOf(c)})

\* The walk of a document, by its log: no level deeper than the document
\* is nested, the deepest level of the document reached, and every node
\* under a field the table gives the collection of its parent.
WalkFollowsTree(log, doc, c) ==
    /\ LET depth == TreeDepth(doc, c)
       IN  /\ \A i \in DOMAIN log : log[i].depth <= depth
           /\ \E i \in DOMAIN log : log[i].depth = depth
    /\ \A i \in DOMAIN log :
           i > 1 => SchemaPath(<<log[ParentVisit(log, i)].collection[1],
                                 log[i].collection[1]>>)

\* The collection a walk starts in: the first segment of the collection
\* path of the key, none for a key without one.
RootCollection(key) ==
    LET c == KeyCollection(key) IN IF c = <<>> THEN "" ELSE c[1]

\* The table's chain of five collections, and cards within cards.
LongestChain == SchemaPath(<<"scenes", "tokens", "delta", "items", "effects">>)

CardsInCards == SchemaPath(<<"cards", "cards", "cards", "cards">>)

\* C17 as stated: no walk goes deeper than three levels; checked in its
\* widest reading, three levels below the primary document.
C17_DepthAtMostThree ==
    /\ JustPacked => \A i \in DOMAIN packVisits : packVisits[i].depth - 1 <= 3
    /\ JustUnpacked => \A i \in DOMAIN unpackVisits : unpackVisits[i].depth - 1 <= 3

\* C17, amended: a walk goes as deep as the document is nested along the
\* fields of the table, and no deeper; the table itself sets no bound of
\* three: it has a chain of five collections, and cards embed cards.
C17_DepthOfDocument ==
    /\ LongestChain
    /\ CardsInCards
    /\ JustPacked =>
           WalkFollowsTree(packVisits, files[fileIdx - 1].doc,
                           RootCollection(FileKey(files[fileIdx - 1])))
    /\ JustUnpacked =>
           WalkFollowsTree(unpackVisits, LastUnpacked,
                           RootCollection(walked[Len(walked)]))

\* The lair has been unpacked: the effect of the item of the token's delta
\* was visited at level 5, four levels below the scene.
C17_Witness ==
    /\ JustUnpacked
    /\ walked[Len(walked)] = lair.doc._key
    /\ \E i \in DOMAIN unpackVisits :
           /\ unpackVisits[i].depth = 5
           /\ unpackVisits[i].collection = <<"effects">>
           /\ unpackVisits[i].id = <<"e3">>

\* Some folders of the index are each other's ancestors: a set of them that
\* holds the parent of each of its members.
HasCycle(map) ==
    \E S \in (SUBSET DOMAIN map) \ {{}} : \A id \in S : map[id].folder \in S

\* The number of segments in the names of the folders ids of the index:
\* the number of the folders, where every name is one segment.
RECURSIVE NameSegments(_, _)
NameSegments(map, ids) ==
    IF ids = {} THEN 0
    ELSE LET id == CHOOSE k \in ids : TRUE
         IN  Len(Split(map[id].name, "/")) + NameSegments(map, ids \ {id})

\* C18: with folders enabled the pre-pass ends if and only if the parent
\* references of the folders have no cycle.  With none, every path is made
\* of at most as many names as there are folders (of no more segments than
\* their names have together); with one (a folder that is its own parent is
\* one) the pre-pass never ends and the main pass is not entered: nothing
\* is walked, nothing written, the store stays open.
C18_PrePassEndsIffAcyclic ==
    (ExtractRun /\ options.folders) =>
        /\ pc = "spinning" =>
               /\ IndexOfStore
               /\ HasCycle(foldersMap)
               /\ walked = <<>>
               /\ written = <<>>
               /\ dbCalls = <<"open">>
        /\ (pc \in {"extracting", "returned"} \/ Len(walked) > 0) =>
               /\ IndexOfStore
               /\ ~HasCycle(foldersMap)
               /\ \A id \in DOMAIN foldersMap :
                      Len(Split(foldersMap[id].path, "/"))
                          <= NameSegments(foldersMap, DOMAIN foldersMap)

\* The pre-pass spins on X in Y in X, entered from W.
C18_Witness ==
    /\ ExtractRun
    /\ pc = "spinning"
    /\ Str(<<"fW">>) \in DOMAIN foldersMap
    /\ foldersMap[Str(<<"fX">>)].folder = Str(<<"fY">>)
    /\ foldersMap[Str(<<"fY">>)].folder = Str(<<"fX">>)

\* The calls of a kind among the calls made on the handle.
Calls(kind) == {i \in DOMAIN dbCalls : dbCalls[i] = kind}

\* C19: in a compile run the batch is written at most once, and in a run
\* that returns exactly once: after the puts of every file kept and the
\* delete of every key of the store that no file declared were staged, the
\* store being untouched until then; compaction is asked for only after
\* the write, from the first to the last key of the store in key order,
\* and not at all when the written store is empty (nor when it holds the
\* empty key, which is its first); the close comes last.
C19_WriteCompactClose ==
    CompileRun =>
        /\ Cardinality(Calls("write")) <= 1
        /\ Cardinality(Calls("compactRange")) <= 1
        /\ Calls("write") = {} => store = storeAtOpen /\ compacted = <<>>
        /\ Calls("write") # {} =>
               /\ fileIdx > Len(files)
               /\ [i \in DOMAIN Puts(batch) |-> Puts(batch)[i].key] = KeptKeys
               /\ {o.key : o \in {d \in Range(batch) : d.type = "del"}}
                      = (DOMAIN storeAtOpen) \ seenKeys
               /\ store = ApplyBatch(storeAtOpen, batch)
        /\ \A i \in Calls("compactRange") :
               /\ i > 1
               /\ dbCalls[i - 1] = "write"
               /\ Len(compacted) = 2
               /\ compacted[1] \in DOMAIN store
               /\ compacted[2] \in DOMAIN store
               /\ \A k \in DOMAIN store :
                      ~KeyLess(k, compacted[1]) /\ ~KeyLess(compacted[2], k)
        /\ pc \in {"close", "returned"} =>
               /\ Calls("write") # {}
               /\ store = EmptyStore => Calls("compactRange") = {}
               /\ (Calls("compactRange") = {})
                      <=> (store = EmptyStore \/ <<>> \in DOMAIN store)
               /\ Calls("compactRange") = {} => compacted = <<>>
        /\ \A i \in Calls("close") : i = Len(dbCalls) /\ pc = "returned"
        /\ pc = "returned" =>
               /\ ~dbOpen
               /\ dbCalls \in {<<"open", "write", "compactRange", "close">>,
                               <<"open", "write", "close">>}

\* A run over several files has returned, with puts and stale deletes in
\* its batch and a compaction over more than one key.
C19_Witness ==
    /\ CompileRun
    /\ pc = "returned"
    /\ Len(files) > 1
    /\ \E i, j \in DOMAIN batch : batch[i].type = "put" /\ batch[j].type = "del"
    /\ dbCalls = <<"open", "write", "compactRange", "close">>
    /\ Len(compacted) = 2
    /\ compacted[1] # compacted[2]

\* C20: the value of every put of a compile run is the node without its
\* _key in which every field of the schema is present and holds
\* references; and there is a put for every node of every file kept, each
\* reduced from the node as the source file has it, embedded documents and
\* all: reducing a parent leaves its children whole for their own visits.
C20_ValuesHoldReferences ==
    Packing =>
        LET nodes == NodesOfFiles(KeptUpTo(fileIdx - 1))
            puts == Puts(batch)
        IN  /\ Len(puts) = Len(nodes)
            /\ \A i \in DOMAIN puts :
                   ReducedTo(puts[i].value, nodes[i].doc, nodes[i].collection)

\* The ghost is packed: null in items has become [], the effects their ids
\* in the order of the file, and both effects are put whole, under their
\* own keys.
C20_Witness ==
    /\ Packing
    /\ files = <<ghost>>
    /\ Len(Puts(batch)) = 3
    /\ batch[1].value.items = <<>>
    /\ batch[1].value.effects = <<Str(<<"e3">>), Str(<<"e1">>)>>
    /\ ~Has(batch[1].value, "_key")
    /\ batch[2].value.name = <<"Chill">>
    /\ batch[3].value.name = <<"Wail">>

=============================================================================
